---- MODULE Spec2Model ----
(***************************************************************************)
(* Model of the tinypenguin CLI task turn (cli/pkg/cli/task.go): the       *)
(* Response Interpreter (parseCommandFromResponse), the Command Safety     *)
(* Gate (isDangerousCommand, and the front-end ToolExecutor's variant in   *)
(* setup.sh), the Tool Dispatcher (executeRunCommands, executeEditFiles)   *)
(* and the Interaction Logger (logToolCall).                               *)
(*                                                                         *)
(* Go strings are sequences of one-character strings, so that ToLower,     *)
(* Contains, TrimSpace, Split and the JSON codec are computed character by *)
(* character as the code computes them.                                    *)
(***************************************************************************)
EXTENDS Integers, Sequences, FiniteSets, TLC

\* ------------------------------------------------------------------------
\* Go strings
\* ------------------------------------------------------------------------

\* a string literal as a sequence of characters
S(s) == [i \in 1..Len(s) |-> SubSeq(s, i, i)]

UpperChars == S("ABCDEFGHIJKLMNOPQRSTUVWXYZ")
LowerChars == S("abcdefghijklmnopqrstuvwxyz")
Digits == S("0123456789")
WhiteSpace == {" ", "\n", "\t", "\r"}

Min(a, b) == IF a < b THEN a ELSE b
Max(a, b) == IF a > b THEN a ELSE b

\* strings.ToLower (and String.prototype.toLowerCase) on the ASCII range
ToLowerChar(c) ==
    IF \E k \in 1..26 : UpperChars[k] = c
    THEN LowerChars[CHOOSE k \in 1..26 : UpperChars[k] = c]
    ELSE c

ToLower(s) == [i \in 1..Len(s) |-> ToLowerChar(s[i])]

\* s[i:j] with Go's 0-based, half-open indexes
Slice(s, i, j) == SubSeq(s, i + 1, j)

\* strings.Index: 0-based index of the first occurrence, -1 if none
Index(s, sub) ==
    LET hits == {i \in 0..(Len(s) - Len(sub)) : Slice(s, i, i + Len(sub)) = sub}
    IN IF hits = {} THEN -1 ELSE CHOOSE i \in hits : \A j \in hits : i <= j

\* strings.LastIndex
LastIndex(s, sub) ==
    LET hits == {i \in 0..(Len(s) - Len(sub)) : Slice(s, i, i + Len(sub)) = sub}
    IN IF hits = {} THEN -1 ELSE CHOOSE i \in hits : \A j \in hits : i >= j

\* strings.Contains
Contains(s, sub) == Index(s, sub) >= 0

\* strings.HasPrefix
HasPrefix(s, p) == Len(s) >= Len(p) /\ SubSeq(s, 1, Len(p)) = p

\* strings.Trim(s, cutset), cutset given as a set of characters
Trim(s, cutset) ==
    LET keep == {i \in 1..Len(s) : s[i] \notin cutset}
    IN IF keep = {} THEN <<>>
       ELSE SubSeq(s, CHOOSE i \in keep : \A j \in keep : i <= j,
                      CHOOSE i \in keep : \A j \in keep : i >= j)

\* strings.TrimSpace
TrimSpace(s) == Trim(s, WhiteSpace)

\* strings.Split(s, sep) for a one-character separator
RECURSIVE Split(_, _)
Split(s, sep) ==
    LET k == Index(s, <<sep>>)
    IN IF k < 0 THEN <<s>>
       ELSE <<Slice(s, 0, k)>> \o Split(Slice(s, k + 1, Len(s)), sep)

\* strings.Join(parts, sep)
RECURSIVE Join(_, _)
Join(parts, sep) ==
    IF Len(parts) = 0 THEN <<>>
    ELSE IF Len(parts) = 1 THEN parts[1]
    ELSE parts[1] \o sep \o Join(Tail(parts), sep)

\* ------------------------------------------------------------------------
\* encoding/json: values, decoder, encoder
\* ------------------------------------------------------------------------

\* JSON values.  An object is the sequence of its <<key, value>> members in
\* the order they appear in the text, an array the sequence of its elements.
JStr(s) == [t |-> "str", v |-> s]
JNum(n) == [t |-> "num", v |-> n]
JBool(b) == [t |-> "bool", v |-> b]
JNull == [t |-> "null", v |-> 0]
JObj(members) == [t |-> "obj", v |-> members]
JArr(elements) == [t |-> "arr", v |-> elements]

Fail == [ok |-> FALSE, val |-> JNull, next |-> 0]
Ok(val, next) == [ok |-> TRUE, val |-> val, next |-> next]

\* position of the first non-whitespace character at or after i
RECURSIVE SkipWs(_, _)
SkipWs(s, i) ==
    IF i <= Len(s) /\ s[i] \in WhiteSpace THEN SkipWs(s, i + 1) ELSE i

\* position after the run of digits starting at i
RECURSIVE SkipDigits(_, _)
SkipDigits(s, i) ==
    IF i <= Len(s) /\ (\E k \in 1..10 : Digits[k] = s[i])
    THEN SkipDigits(s, i + 1) ELSE i

DigitVal(c) == (CHOOSE k \in 1..10 : Digits[k] = c) - 1

\* value of a run of digits
RECURSIVE DigitsVal(_, _)
DigitsVal(d, acc) ==
    IF Len(d) = 0 THEN acc ELSE DigitsVal(Tail(d), acc * 10 + DigitVal(d[1]))

\* the \uXXXX escapes the encoder emits (HTML-safe escaping)
UnicodeEscapes == {<<S("003c"), "<">>, <<S("003e"), ">">>, <<S("0026"), "&">>}

\* the body of a string literal, from the character after the opening quote
RECURSIVE ParseString(_, _, _)
ParseString(s, i, acc) ==
    IF i > Len(s) THEN Fail
    ELSE IF s[i] = "\"" THEN Ok(JStr(acc), i + 1)
    ELSE IF s[i] \in {"\n", "\t", "\r"} THEN Fail
    ELSE IF s[i] = "\\" THEN
        IF i + 1 > Len(s) THEN Fail
        ELSE IF s[i + 1] \in {"\"", "\\", "/"}
             THEN ParseString(s, i + 2, Append(acc, s[i + 1]))
        ELSE IF s[i + 1] = "n" THEN ParseString(s, i + 2, Append(acc, "\n"))
        ELSE IF s[i + 1] = "t" THEN ParseString(s, i + 2, Append(acc, "\t"))
        ELSE IF s[i + 1] = "r" THEN ParseString(s, i + 2, Append(acc, "\r"))
        ELSE IF s[i + 1] = "u" /\ i + 5 <= Len(s)
                /\ \E e \in UnicodeEscapes : e[1] = ToLower(SubSeq(s, i + 2, i + 5))
             THEN ParseString(s, i + 6,
                      Append(acc, (CHOOSE e \in UnicodeEscapes :
                                       e[1] = ToLower(SubSeq(s, i + 2, i + 5)))[2]))
        ELSE Fail
    ELSE ParseString(s, i + 1, Append(acc, s[i]))

\* the literal lit stands at position i of s
LitAt(s, i, lit) == i + Len(lit) - 1 <= Len(s) /\ SubSeq(s, i, i + Len(lit) - 1) = lit

RECURSIVE ParseValue(_, _)
RECURSIVE ParseMembers(_, _, _)
RECURSIVE ParseElements(_, _, _)

\* one JSON value starting at or after position i
ParseValue(s, i) ==
    LET j == SkipWs(s, i) IN
    IF j > Len(s) THEN Fail
    ELSE IF s[j] = "\"" THEN ParseString(s, j + 1, <<>>)
    ELSE IF s[j] = "{" THEN
        LET k == SkipWs(s, j + 1) IN
        IF k <= Len(s) /\ s[k] = "}" THEN Ok(JObj(<<>>), k + 1)
        ELSE ParseMembers(s, k, <<>>)
    ELSE IF s[j] = "[" THEN
        LET k == SkipWs(s, j + 1) IN
        IF k <= Len(s) /\ s[k] = "]" THEN Ok(JArr(<<>>), k + 1)
        ELSE ParseElements(s, k, <<>>)
    ELSE IF LitAt(s, j, S("null")) THEN Ok(JNull, j + 4)
    ELSE IF LitAt(s, j, S("true")) THEN Ok(JBool(TRUE), j + 4)
    ELSE IF LitAt(s, j, S("false")) THEN Ok(JBool(FALSE), j + 5)
    ELSE LET d == IF s[j] = "-" THEN j + 1 ELSE j
             e == SkipDigits(s, d)
         IN IF e = d \/ (e - d > 1 /\ s[d] = "0") THEN Fail
            ELSE Ok(JNum((IF d = j THEN 1 ELSE -1) * DigitsVal(SubSeq(s, d, e - 1), 0)), e)

\* the members of an object, from the first key to the closing brace
ParseMembers(s, i, acc) ==
    LET j == SkipWs(s, i) IN
    IF j > Len(s) \/ s[j] # "\"" THEN Fail
    ELSE LET key == ParseString(s, j + 1, <<>>) IN
         IF ~key.ok THEN Fail
         ELSE LET c == SkipWs(s, key.next) IN
              IF c > Len(s) \/ s[c] # ":" THEN Fail
              ELSE LET val == ParseValue(s, c + 1) IN
                   IF ~val.ok THEN Fail
                   ELSE LET e == SkipWs(s, val.next)
                            members == Append(acc, <<key.val.v, val.val>>)
                        IN IF e > Len(s) THEN Fail
                           ELSE IF s[e] = "}" THEN Ok(JObj(members), e + 1)
                           ELSE IF s[e] = "," THEN ParseMembers(s, e + 1, members)
                           ELSE Fail

\* the elements of an array, from the first element to the closing bracket
ParseElements(s, i, acc) ==
    LET val == ParseValue(s, i) IN
    IF ~val.ok THEN Fail
    ELSE LET e == SkipWs(s, val.next)
             elements == Append(acc, val.val)
         IN IF e > Len(s) THEN Fail
            ELSE IF s[e] = "]" THEN Ok(JArr(elements), e + 1)
            ELSE IF s[e] = "," THEN ParseElements(s, e + 1, elements)
            ELSE Fail

\* a whole JSON text: one value, surrounded by whitespace only
ParseJSON(s) ==
    LET r == ParseValue(s, 1) IN
    IF r.ok /\ SkipWs(s, r.next) > Len(s) THEN r ELSE Fail

\* the value a Go map holds for a key after decoding an object: the last
\* member with that key wins; NoValue when the key is absent
NoValue == [t |-> "absent", v |-> 0]

MapGet(obj, key) ==
    LET hits == {k \in 1..Len(obj.v) : obj.v[k][1] = key}
    IN IF hits = {} THEN NoValue
       ELSE obj.v[CHOOSE k \in hits : \A h \in hits : k >= h][2]

\* json.Unmarshal(data, &m) for m a map[string]interface{}: the error, and
\* the map (nil, i.e. no members, for the JSON text null)
UnmarshalMap(s) ==
    LET decode(r) ==
            IF ~r.ok THEN [err |-> TRUE, m |-> JObj(<<>>)]
            ELSE IF r.val.t = "obj" THEN [err |-> FALSE, m |-> r.val]
            ELSE IF r.val.t = "null" THEN [err |-> FALSE, m |-> JObj(<<>>)]
            ELSE [err |-> TRUE, m |-> JObj(<<>>)]
    IN decode(ParseJSON(s))

\* m[key].(string): the type assertion's value and ok flag
AsString(val) ==
    IF val.t = "str" THEN [ok |-> TRUE, s |-> val.v] ELSE [ok |-> FALSE, s |-> <<>>]

\* the member a struct field tagged `name` is decoded from: field names
\* match case-insensitively and a later member overwrites an earlier one
FieldGet(obj, name) ==
    LET hits == {k \in 1..Len(obj.v) : ToLower(obj.v[k][1]) = name}
    IN IF hits = {} THEN NoValue
       ELSE obj.v[CHOOSE k \in hits : \A h \in hits : k >= h][2]

\* a string literal as the encoder writes it (HTML-safe escaping on)
RECURSIVE EscapeString(_)
EscapeString(s) ==
    IF Len(s) = 0 THEN <<>>
    ELSE (IF s[1] = "\"" THEN S("\\\"")
          ELSE IF s[1] = "\\" THEN S("\\\\")
          ELSE IF s[1] = "\n" THEN S("\\n")
          ELSE IF s[1] = "\t" THEN S("\\t")
          ELSE IF s[1] = "\r" THEN S("\\r")
          ELSE IF s[1] = "<" THEN S("\\u003c")
          ELSE IF s[1] = ">" THEN S("\\u003e")
          ELSE IF s[1] = "&" THEN S("\\u0026")
          ELSE <<s[1]>>) \o EscapeString(Tail(s))

\* json.Marshal(map[string]string{"command": command})
MarshalCommand(command) ==
    S("{\"command\":\"") \o EscapeString(command) \o S("\"}")

\* ------------------------------------------------------------------------
\* Command Safety Gate
\* ------------------------------------------------------------------------

\* the denylist of the CLI's isDangerousCommand
dangerousPatterns ==
    << S("rm -rf /"), S("rm -rf /usr"), S("rm -rf /bin"), S("dd if="),
       S("mkfs"), S("fdisk"), S("shred"), S("cryptsetup") >>

\* a gate that compares the command as typed, without lowering it first
isDangerousCommand_CaseSensitive(command) ==
    \E k \in 1..Len(dangerousPatterns) : Contains(command, dangerousPatterns[k])

\* isDangerousCommand of task.go: case-insensitive substring match
isDangerousCommand(command) ==
    LET lowered == ToLower(command)
    IN \E k \in 1..Len(dangerousPatterns) : Contains(lowered, dangerousPatterns[k])

\* JavaScript's \s, restricted to the characters of the model
JsSpace == {" ", "\n", "\t", "\r"}

\* A pattern of the form /^lit1\s+lit2\s+...litN/: the literals, anchored at
\* position i, separated by one or more whitespace characters.  No literal
\* starts with whitespace, so each \s+ takes the whole run.  The position
\* after the match, or 0 when there is none.
RECURSIVE MatchLits(_, _, _)
MatchLits(s, i, lits) ==
    IF Len(lits) = 0 THEN i
    ELSE IF ~LitAt(s, i, lits[1]) THEN 0
    ELSE LET e == i + Len(lits[1]) IN
         IF Len(lits) = 1 THEN e
         ELSE LET w == SkipWs(s, e) IN
              IF w = e THEN 0 ELSE MatchLits(s, w, Tail(lits))

\* /^chown\s+.*\:.*\/etc/ : after chown and at least one whitespace
\* character, a colon and later /etc, with no line terminator between the
\* end of the whitespace taken by \s+ and /etc
MatchChown(s) ==
    /\ LitAt(s, 1, S("chown"))
    /\ \E w \in 7..(Len(s) + 1) :
         /\ \A k \in 6..(w - 1) : s[k] \in JsSpace
         /\ \E c \in w..Len(s) : \E e \in (c + 1)..Len(s) :
              /\ s[c] = ":"
              /\ LitAt(s, e, S("/etc"))
              /\ \A k \in w..(e - 1) : s[k] \notin {"\n", "\r"}

\* ToolExecutor.isDangerousCommand of the front-end tool layer (setup.sh)
ToolExecutor_isDangerousCommand(command) ==
    LET lowerCommand == ToLower(command)
        m(lits) == MatchLits(lowerCommand, 1, lits)
    IN \/ m(<<S("rm"), S("-rf"), S("/")>>) = Len(lowerCommand) + 1
       \/ m(<<S("rm"), S("-rf"), S("/usr")>>) > 0
       \/ m(<<S("rm"), S("-rf"), S("/bin")>>) > 0
       \/ m(<<S("dd"), S("if=")>>) > 0
       \/ m(<<S("mkfs")>>) > 0
       \/ m(<<S("fdisk")>>) > 0
       \/ m(<<S("shred")>>) > 0
       \/ m(<<S("cryptsetup")>>) > 0
       \/ m(<<S("chmod"), S("777")>>) > 0
       \/ MatchChown(lowerCommand)
       \/ (Contains(lowerCommand, S("sudo")) /\ Contains(lowerCommand, S("rm -rf /")))

\* ------------------------------------------------------------------------
\* Response Interpreter
\* ------------------------------------------------------------------------

\* the read-only allowlist of parseCommandFromResponse
safeInfoCommands ==
    << S("who"), S("w"), S("users"), S("whoami"), S("id"),
       S("cat /etc/passwd"), S("getent passwd"), S("cut -d: -f1 /etc/passwd"),
       S("ls"), S("pwd"), S("date"), S("uptime"),
       S("uname"), S("hostname"), S("df"), S("free"),
       S("ps"), S("systemctl list-units"), S("systemctl status"),
       S("netstat"), S("ss"), S("ip addr"), S("ip route") >>

\* the read-only verb prefixes, each with its trailing space
readOnlyPrefixes ==
    << S("cat "), S("less "), S("head "), S("tail "), S("grep "),
       S("find "), S("ls "), S("getent "), S("cut ") >>

\* the allowlist test on a string taken as it is: an entry, an entry
\* followed by a space, or a read-only verb prefix
MatchesAllowlist(c) ==
    \/ \E k \in 1..Len(safeInfoCommands) :
         c = safeInfoCommands[k] \/ HasPrefix(c, safeInfoCommands[k] \o S(" "))
    \/ \E k \in 1..Len(readOnlyPrefixes) : HasPrefix(c, readOnlyPrefixes[k])

\* an interpreter that auto-executes every extracted command
isSafeInfoCommand_Always(cmd) == TRUE

\* the classification of an extracted command (task.go 702-740): the test
\* is made on the command trimmed of surrounding whitespace and lowered
isSafeInfoCommand(cmd) ==
    LET cmdLower == ToLower(TrimSpace(cmd))
    IN MatchesAllowlist(cmdLower)

\* The backquote character, which a TLA+ string literal cannot hold, and the
\* code-fence marker made of three of them
BackQuote == "BQ"
Fence == <<BackQuote, BackQuote, BackQuote>>

\* content with one opening fence line and one closing fence line removed
\* (task.go 633-652)
StripFence(content) ==
    IF ~HasPrefix(content, Fence) THEN content
    ELSE LET lines0 == Split(content, "\n")
             lines1 == IF Len(lines0) > 0 /\ HasPrefix(TrimSpace(lines0[1]), Fence)
                       THEN Tail(lines0) ELSE lines0
             lines2 == IF Len(lines1) > 0 /\ TrimSpace(lines1[Len(lines1)]) = Fence
                       THEN SubSeq(lines1, 1, Len(lines1) - 1) ELSE lines1
         IN TrimSpace(Join(lines2, S("\n")))

\* the JSON parse with its first-{ to last-} retry (task.go 654-669): the
\* error, the decoded map and the working content
ParseContent(content) ==
    LET retry(jsonStr, second) ==
            IF ~second.err
            THEN [err |-> FALSE, m |-> second.m, content |-> jsonStr]
            ELSE [err |-> TRUE, m |-> second.m, content |-> content]
        parse(first, startIdx, endIdx) ==
            IF ~first.err THEN [err |-> FALSE, m |-> first.m, content |-> content]
            ELSE IF startIdx >= 0 /\ endIdx > startIdx
            THEN retry(Slice(content, startIdx, endIdx + 1),
                       UnmarshalMap(Slice(content, startIdx, endIdx + 1)))
            ELSE [err |-> TRUE, m |-> first.m, content |-> content]
    IN parse(UnmarshalMap(content), Index(content, S("{")), LastIndex(content, S("}")))

\* an extraction that tries the arguments before the top-level command
ExtractCommand_ArgumentsFirst(m) ==
    LET none == [ok |-> FALSE, s |-> <<>>]
        command(obj) == AsString(MapGet(obj, S("command")))
        fromInner(inner) == IF ~inner.err THEN command(inner.m) ELSE none
        nested(args) == IF args.t = "obj" THEN command(args) ELSE none
        stringified(args) ==
            IF args.t = "str" THEN fromInner(UnmarshalMap(args.v)) ELSE none
        first(a, b, c) ==
            IF b.ok /\ b.s # <<>> THEN b.s
            ELSE IF c.ok /\ c.s # <<>> THEN c.s
            ELSE IF a.ok /\ a.s # <<>> THEN a.s
            ELSE <<>>
    IN first(command(m), nested(MapGet(m, S("arguments"))),
             stringified(MapGet(m, S("arguments"))))

\* the command extracted from a decoded map by the three shapes, tried in
\* order (task.go 673-700); empty when none yields one
ExtractCommand(m) ==
    LET none == [ok |-> FALSE, s |-> <<>>]
        command(obj) == AsString(MapGet(obj, S("command")))
        fromInner(inner) == IF ~inner.err THEN command(inner.m) ELSE none
        nested(args) == IF args.t = "obj" THEN command(args) ELSE none
        stringified(args) ==
            IF args.t = "str" THEN fromInner(UnmarshalMap(args.v)) ELSE none
        first(a, b, c) ==
            IF a.ok /\ a.s # <<>> THEN a.s
            ELSE IF b.ok /\ b.s # <<>> THEN b.s
            ELSE IF c.ok /\ c.s # <<>> THEN c.s
            ELSE <<>>
    IN first(command(m), nested(MapGet(m, S("arguments"))),
             stringified(MapGet(m, S("arguments"))))

\* the line scan (task.go 744-764): the text after the first colon of the
\* first line that mentions "command" or 'command' and yields a usable text
RECURSIVE ScanLines(_)
ScanLines(lines) ==
    IF Len(lines) = 0 THEN <<>>
    ELSE LET line == TrimSpace(lines[1])
             idx == Index(line, S(":"))
             potentialCmd ==
                 IF idx > 0
                 THEN Trim(TrimSpace(Slice(line, idx + 1, Len(line))),
                           {"\"", "'", "{", "}", "[", "]"})
                 ELSE <<>>
         IN IF /\ line # <<>>
               /\ (Contains(line, S("\"command\"")) \/ Contains(line, S("'command'")))
               /\ idx > 0
               /\ potentialCmd # <<>>
               /\ ~Contains(potentialCmd, S("{"))
            THEN potentialCmd
            ELSE ScanLines(Tail(lines))

\* parseCommandFromResponse: the command, the auto-execute flag, and the
\* step that produced the command ("json", "scan" or "none")
parseCommandFromResponse(content) ==
    IF content = <<>> THEN [command |-> <<>>, shouldExecute |-> FALSE, via |-> "none"]
    ELSE LET scan(scanned) ==
                 IF scanned # <<>>
                 THEN [command |-> scanned, shouldExecute |-> FALSE, via |-> "scan"]
                 ELSE [command |-> <<>>, shouldExecute |-> FALSE, via |-> "none"]
             classify(cmd, working) ==
                 IF cmd # <<>>
                 THEN [command |-> cmd, shouldExecute |-> isSafeInfoCommand(cmd),
                       via |-> "json"]
                 ELSE scan(ScanLines(Split(working, "\n")))
             extract(p) ==
                 classify(IF p.err THEN <<>> ELSE ExtractCommand(p.m), p.content)
         IN extract(ParseContent(StripFence(TrimSpace(content))))

\* ------------------------------------------------------------------------
\* Interaction Logger
\* ------------------------------------------------------------------------

\* const maxEntries of logToolCall
maxEntries == 1000

\* The log file is the sequence of its lines.  A line is a JSON object,
\* given as the function from its keys to their JSON values, another JSON
\* value, text that is not JSON, or a blank line.  A missing or empty file
\* is the empty sequence: os.ReadFile failing and a file without lines both
\* leave existingLogs empty.
MalformedLine == [t |-> "malformed", v |-> 0]
BlankLine == [t |-> "blank", v |-> 0]
LineObj(fields) == [t |-> "obj", v |-> fields]

\* time.Time as the number of ticks since the zero time; its JSON form is a
\* string holding the formatted instant
RECURSIVE FormatInt(_)
FormatInt(n) ==
    IF n < 10 THEN <<Digits[n + 1]>> ELSE Append(FormatInt(n \div 10), Digits[(n % 10) + 1])

FormatTime(n) == <<"T">> \o FormatInt(n)

ParseTime(s) ==
    IF Len(s) >= 2 /\ s[1] = "T" /\ SkipDigits(s, 2) = Len(s) + 1
    THEN [ok |-> TRUE, n |-> DigitsVal(Tail(s), 0)]
    ELSE [ok |-> FALSE, n |-> 0]

\* the JSON keys of the ToolCallLog struct tags, by Go type
logStringKeys ==
    {"model", "tool_name", "arguments", "status", "message", "output", "error_details"}

\* the member a struct field is decoded from; NoValue when the line has none
LineGet(line, key) == IF key \in DOMAIN line.v THEN line.v[key] ELSE NoValue

\* one struct field decoded from a line: absent and null leave the zero value
DecodeField(line, key, type, zero) ==
    LET val == LineGet(line, key) IN
    IF val.t \in {"absent", "null"} THEN [ok |-> TRUE, x |-> zero]
    ELSE IF val.t = type THEN [ok |-> TRUE, x |-> val.v]
    ELSE [ok |-> FALSE, x |-> zero]

\* json.Unmarshal([]byte(line), &entry) for entry a ToolCallLog: keys that
\* are no field of the struct are ignored, a value of the wrong type is an
\* error.  The struct is the function from its JSON keys to the Go values.
UnmarshalLog(line) ==
    LET zero == [k \in {"timestamp", "tools_enabled", "rating"} \cup logStringKeys |->
                    IF k \in {"timestamp", "rating"} THEN 0
                    ELSE IF k = "tools_enabled" THEN FALSE ELSE <<>>]
    IN IF line.t = "null" THEN [ok |-> TRUE, entry |-> zero]
       ELSE IF line.t # "obj" THEN [ok |-> FALSE, entry |-> zero]
       ELSE LET ts == DecodeField(line, "timestamp", "str", <<>>)
                tm == IF LineGet(line, "timestamp").t \in {"absent", "null"}
                      THEN [ok |-> TRUE, n |-> 0]
                      ELSE IF ts.ok THEN ParseTime(ts.x) ELSE [ok |-> FALSE, n |-> 0]
                en == DecodeField(line, "tools_enabled", "bool", FALSE)
                rt == DecodeField(line, "rating", "num", 0)
                st == [k \in logStringKeys |-> DecodeField(line, k, "str", <<>>)]
            IN [ok |-> ts.ok /\ tm.ok /\ en.ok /\ rt.ok /\ \A k \in logStringKeys : st[k].ok,
                entry |-> [k \in DOMAIN zero |->
                              IF k = "timestamp" THEN tm.n
                              ELSE IF k = "tools_enabled" THEN en.x
                              ELSE IF k = "rating" THEN rt.x
                              ELSE st[k].x]]

\* json.Marshal(log) for log a ToolCallLog: output, error_details and rating
\* carry omitempty
MarshalLog(entry) ==
    LET omitted == {k \in {"output", "error_details"} : entry[k] = <<>>}
                   \cup (IF entry["rating"] = 0 THEN {"rating"} ELSE {})
    IN LineObj([k \in (DOMAIN entry) \ omitted |->
                   IF k = "timestamp" THEN JStr(FormatTime(entry[k]))
                   ELSE IF k = "tools_enabled" THEN JBool(entry[k])
                   ELSE IF k = "rating" THEN JNum(entry[k])
                   ELSE JStr(entry[k])])

Decoded(r) == r.ok

\* a rotation that never drops an entry
Rotate_Never(logs) == logs

\* a rotation that keeps the oldest maxEntries entries
Rotate_KeepOldest(logs) ==
    IF Len(logs) > maxEntries THEN SubSeq(logs, 1, maxEntries) ELSE logs

\* existingLogs[len(existingLogs)-maxEntries:] when the cap is exceeded
Rotate(logs) ==
    IF Len(logs) > maxEntries
    THEN SubSeq(logs, Len(logs) - maxEntries + 1, Len(logs))
    ELSE logs

\* the entries logToolCall reads back from the file: blank lines and lines
\* that do not decode are skipped
ReadLogs(lines) ==
    LET decoded == [k \in 1..Len(lines) |->
                       IF lines[k].t = "blank" THEN [ok |-> FALSE, entry |-> <<>>]
                       ELSE UnmarshalLog(lines[k])]
        kept == SelectSeq(decoded, Decoded)
    IN [k \in 1..Len(kept) |-> kept[k].entry]

\* logToolCall: the lines of the file after appending logEntry
logToolCall(lines, logEntry) ==
    LET existingLogs == Rotate(Append(ReadLogs(lines), logEntry))
    IN [k \in 1..Len(existingLogs) |-> MarshalLog(existingLogs[k])]

\* ------------------------------------------------------------------------
\* Tool Dispatcher
\* ------------------------------------------------------------------------

\* TaskResponse
TaskResponse(status, message, output) ==
    [Status |-> status, Message |-> message, Output |-> output]

NoResult == TaskResponse(<<>>, <<>>, <<>>)

\* the default deadline of executeRunCommands, in seconds
DefaultTimeoutSeconds == 30

\* json.Unmarshal of the arguments into the params struct of
\* executeRunCommands: Command string, Timeout *int (0 stands for nil here
\* and hasTimeout tells the two apart)
DecodeRunParams(arguments) ==
    LET zero == [err |-> FALSE, Command |-> <<>>, hasTimeout |-> FALSE, Timeout |-> 0]
        fields(c, d) ==
            [err |-> c.t \notin {"absent", "null", "str"}
                     \/ d.t \notin {"absent", "null", "num"},
             Command |-> IF c.t = "str" THEN c.v ELSE <<>>,
             hasTimeout |-> d.t = "num",
             Timeout |-> IF d.t = "num" THEN d.v ELSE 0]
        decode(r) ==
            IF ~r.ok THEN [zero EXCEPT !.err = TRUE]
            ELSE IF r.val.t = "null" THEN zero
            ELSE IF r.val.t # "obj" THEN [zero EXCEPT !.err = TRUE]
            ELSE fields(FieldGet(r.val, S("command")), FieldGet(r.val, S("timeout")))
    IN decode(ParseJSON(arguments))

\* a dispatcher that consults no safety gate
GateDenies_Never(command) == FALSE

\* the safety check of executeRunCommands (task.go 552-558)
GateDenies(command) == isDangerousCommand(command)

\* executeRunCommands up to the point where the child is started: either
\* the result it returns without starting one, or the command and deadline
\* of the child.  A deadline that is not positive has expired before
\* cmd.Start runs, which then returns the context's error without starting
\* the child.
executeRunCommands(arguments) ==
    LET returns(params, timeout, result) ==
            [spawn |-> FALSE, command |-> params.Command, timeout |-> timeout,
             result |-> result]
        run(params, timeout) ==
            IF params.err
            THEN returns(params, timeout,
                     TaskResponse(S("error"), S("Failed to parse run_commands arguments"),
                                  <<>>))
            ELSE IF params.Command = <<>>
            THEN returns(params, timeout,
                     TaskResponse(S("error"), S("Command is required"), <<>>))
            ELSE IF GateDenies(params.Command)
            THEN returns(params, timeout,
                     TaskResponse(S("denied"), S("Command was denied for safety reasons"),
                                  <<>>))
            ELSE IF timeout <= 0
            THEN returns(params, timeout,
                     TaskResponse(S("error"), S("Command timed out"), <<>>))
            ELSE [spawn |-> TRUE, command |-> params.Command, timeout |-> timeout,
                  result |-> NoResult]
        deadline(params) ==
            run(params, IF params.hasTimeout THEN params.Timeout
                        ELSE DefaultTimeoutSeconds)
    IN deadline(DecodeRunParams(arguments))

\* a dispatcher that reports success whatever the child did
CommandResult_ExitIgnored(expired, exitCode, output) ==
    TaskResponse(S("success"), S("Command executed successfully"), output)

\* the result executeRunCommands returns once cmd.CombinedOutput is back:
\* expired tells that the deadline passed and the child was killed
CommandResult(expired, exitCode, output) ==
    IF expired THEN TaskResponse(S("error"), S("Command timed out"), <<>>)
    ELSE IF exitCode # 0 THEN TaskResponse(S("error"), S("Command failed"), output)
    ELSE TaskResponse(S("success"), S("Command executed successfully"), output)

\* json.Unmarshal of the arguments into the params struct of
\* executeEditFiles: Path string, Diff string
DecodeEditParams(arguments) ==
    LET zero == [err |-> FALSE, Path |-> <<>>, Diff |-> <<>>]
        fields(p, d) ==
            [err |-> p.t \notin {"absent", "null", "str"}
                     \/ d.t \notin {"absent", "null", "str"},
             Path |-> IF p.t = "str" THEN p.v ELSE <<>>,
             Diff |-> IF d.t = "str" THEN d.v ELSE <<>>]
        decode(r) ==
            IF ~r.ok THEN [zero EXCEPT !.err = TRUE]
            ELSE IF r.val.t = "null" THEN zero
            ELSE IF r.val.t # "obj" THEN [zero EXCEPT !.err = TRUE]
            ELSE fields(FieldGet(r.val, S("path")), FieldGet(r.val, S("diff")))
    IN decode(ParseJSON(arguments))

\* executeEditFiles: validates its input and reports success; it reads and
\* writes no file
executeEditFiles(arguments) ==
    LET edit(params) ==
            IF params.err
            THEN TaskResponse(S("error"), S("Failed to parse edit_files arguments"), <<>>)
            ELSE IF params.Path = <<>> \/ params.Diff = <<>>
            THEN TaskResponse(S("error"), S("Both path and diff are required"), <<>>)
            ELSE TaskResponse(S("success"),
                     S("File edit operation would be applied to ") \o params.Path,
                     S("Applied diff to ") \o params.Path)
    IN edit(DecodeEditParams(arguments))

\* the result for a tool name the switch does not know (task.go 372-376)
UnknownTool(name) == TaskResponse(S("error"), S("Unknown tool: ") \o name, <<>>)

\* strconv.Atoi: an optional sign and one or more digits
Atoi(s) ==
    LET d == IF Len(s) > 0 /\ s[1] \in {"+", "-"} THEN Tail(s) ELSE s
    IN IF Len(d) = 0 \/ SkipDigits(d, 1) # Len(d) + 1 THEN [err |-> TRUE, n |-> 0]
       ELSE [err |-> FALSE,
             n |-> (IF Len(s) > 0 /\ s[1] = "-" THEN -1 ELSE 1) * DigitsVal(d, 0)]

\* promptRating without the range test of task.go 156
promptRating_Unchecked(input) ==
    LET r == Atoi(TrimSpace(input)) IN IF r.err THEN 0 ELSE r.n

\* promptRating on the line read from standard input (empty at end of input)
promptRating(input) ==
    LET r == Atoi(TrimSpace(input))
    IN IF r.err \/ r.n < 0 \/ r.n > 5 THEN 0 ELSE r.n

\* ------------------------------------------------------------------------
\* Front-end ToolExecutor: edit_files
\* ------------------------------------------------------------------------

\* Array.prototype.splice(start, deleteCount, ...items) on a 0-based start:
\* a start past the end is the end, and no more is deleted than there is
Splice(arr, start, deleteCount, items) ==
    LET at == IF start > Len(arr) THEN Len(arr) ELSE start
        del == IF deleteCount > Len(arr) - at THEN Len(arr) - at ELSE deleteCount
    IN SubSeq(arr, 1, at) \o items \o SubSeq(arr, at + del + 1, Len(arr))

\* the for loop of applyDiff from diff line k on (setup.sh 257-268)
RECURSIVE ApplyDiffLines(_, _, _, _)
ApplyDiffLines(result, lineIndex, diffLines, k) ==
    IF k > Len(diffLines) THEN result
    ELSE IF HasPrefix(diffLines[k], S(" "))
    THEN ApplyDiffLines(result, lineIndex + 1, diffLines, k + 1)
    ELSE IF HasPrefix(diffLines[k], S("+"))
    THEN ApplyDiffLines(Splice(result, lineIndex, 0, <<Tail(diffLines[k])>>),
                        lineIndex + 1, diffLines, k + 1)
    ELSE IF HasPrefix(diffLines[k], S("-"))
    THEN ApplyDiffLines(Splice(result, lineIndex, 1, <<>>), lineIndex, diffLines, k + 1)
    ELSE ApplyDiffLines(result, lineIndex, diffLines, k + 1)

\* a patch operator that takes + lines as context
applyDiff_NoInsert(orig, d) ==
    Join(ApplyDiffLines(Split(orig, "\n"), 0,
                        [k \in 1..Len(Split(d, "\n")) |->
                            IF HasPrefix(Split(d, "\n")[k], S("+"))
                            THEN S(" ") ELSE Split(d, "\n")[k]], 1),
         S("\n"))

\* a patch operator that drops the last line of what it read
applyDiff_DropsLast(orig, d) ==
    Join(ApplyDiffLines(Split(orig, "\n"), 0, Split(d, "\n") \o <<S("-")>>, 1), S("\n"))

\* ToolExecutor.applyDiff (setup.sh 248-271)
applyDiff(orig, d) ==
    Join(ApplyDiffLines(Split(orig, "\n"), 0, Split(d, "\n"), 1), S("\n"))

\* ToolUseResult of the front-end; toolName is edit_files throughout
ToolUseResult(status, message, toolOutput, errorDetails) ==
    [status |-> status, message |-> message, toolOutput |-> toolOutput,
     errorDetails |-> errorDetails]

NoToolUse == ToolUseResult(<<>>, <<>>, <<>>, <<>>)

\* path.dirname as the imported module path computes it
DirnameOfParameter_Resolves(p) == [threw |-> FALSE, message |-> <<>>]

\* path.dirname(path) in executeEditFilesTool (setup.sh 189): the parameter
\* named path, a string, hides the imported module path there, so dirname
\* is undefined and calling it throws a TypeError
DirnameOfParameter(p) ==
    [threw |-> TRUE, message |-> S("path.dirname is not a function")]

\* the directories that exist before an edit
ExistingDirs == { S("/"), S("/tmp") }

\* position of the last "/" of p, 0 when it has none
RECURSIVE LastSlash(_, _)
LastSlash(p, k) == IF k = 0 \/ p[k] = "/" THEN k ELSE LastSlash(p, k - 1)

\* the directory part of p
Dirname(p) ==
    IF LastSlash(p, Len(p)) = 0 THEN S(".")
    ELSE IF LastSlash(p, Len(p)) = 1 THEN S("/")
    ELSE SubSeq(p, 1, LastSlash(p, Len(p)) - 1)

\* "Ensure directory exists" (setup.sh 189-193) once dir is computed
EnsureDirectory(p) ==
    << [op |-> "existsSync", path |-> Dirname(p), data |-> <<>>] >>
    \o (IF Dirname(p) \in ExistingDirs THEN <<>>
        ELSE << [op |-> "mkdirSync", path |-> Dirname(p), data |-> <<>>] >>)

\* the number of diff lines that start with the character c
CountLines(d, c) == Cardinality({k \in 1..Len(Split(d, "\n")) : HasPrefix(Split(d, "\n")[k], c)})

\* ToolExecutor.executeEditFilesTool (setup.sh 170-218) with applyDiffToFile
\* and writeContentToFile: the result and the filesystem calls it made.
\* prior is the content of the file at path, <<>> when there is none.
executeEditFilesTool(path, content, d, prior) ==
    IF path = <<>>
    THEN [result |-> ToolUseResult(S("error"), S("File path is required"), <<>>,
                                   S("Path parameter is missing")),
          ops |-> <<>>]
    ELSE IF DirnameOfParameter(path).threw
    THEN [result |-> ToolUseResult(S("error"),
                         S("Failed to edit file: ") \o DirnameOfParameter(path).message,
                         <<>>, S("TypeError: ") \o DirnameOfParameter(path).message),
          ops |-> <<>>]
    ELSE IF d # <<>>
    THEN [result |-> ToolUseResult(S("success"), S("Applied diff to file: ") \o path,
                         S("File updated with ") \o FormatInt(CountLines(d, S("+")))
                         \o S(" additions and ") \o FormatInt(CountLines(d, S("-")))
                         \o S(" deletions"), <<>>),
          ops |-> EnsureDirectory(path) \o
                  << [op |-> "existsSync", path |-> path, data |-> <<>>],
                     [op |-> "readFile", path |-> path, data |-> prior],
                     [op |-> "writeFile", path |-> path, data |-> applyDiff(prior, d)] >>]
    ELSE IF content # <<>>
    THEN [result |-> ToolUseResult(S("success"), S("Wrote content to file: ") \o path,
                         S("File created/updated with ") \o FormatInt(Len(content))
                         \o S(" characters"), <<>>),
          ops |-> EnsureDirectory(path) \o
                  << [op |-> "writeFile", path |-> path, data |-> content] >>]
    ELSE [result |-> ToolUseResult(S("error"), S("Either content or diff is required"),
                                   <<>>, S("No content or diff provided")),
          ops |-> EnsureDirectory(path)]

\* ------------------------------------------------------------------------
\* Log converter (convert_logs_for_finetuning.go)
\* ------------------------------------------------------------------------

\* the JSON keys of the converter's ToolCallLog struct tags that decode to
\* Go strings; the timestamp is one of them
converterStringKeys ==
    {"timestamp", "model", "user_query", "model_response", "tool_name", "arguments",
     "status", "message", "output", "error_details"}

\* json.Unmarshal([]byte(line), &logEntry) for logEntry the converter's
\* ToolCallLog
UnmarshalEntry(line) ==
    LET zero == [k \in converterStringKeys \cup {"tools_enabled", "rating"} |->
                    IF k = "rating" THEN 0
                    ELSE IF k = "tools_enabled" THEN FALSE ELSE <<>>]
    IN IF line.t = "null" THEN [ok |-> TRUE, entry |-> zero]
       ELSE IF line.t # "obj" THEN [ok |-> FALSE, entry |-> zero]
       ELSE LET en == DecodeField(line, "tools_enabled", "bool", FALSE)
                rt == DecodeField(line, "rating", "num", 0)
                st == [k \in converterStringKeys |-> DecodeField(line, k, "str", <<>>)]
            IN [ok |-> en.ok /\ rt.ok /\ \A k \in converterStringKeys : st[k].ok,
                entry |-> [k \in DOMAIN zero |->
                              IF k = "tools_enabled" THEN en.x
                              ELSE IF k = "rating" THEN rt.x
                              ELSE st[k].x]]

\* fmt.Sscanf(text, "%d", &minRating): the value of minRating afterwards,
\* old when the text does not start with a decimal number
Sscanf(text, old) ==
    LET i == IF text # <<>> /\ text[1] \in {"+", "-"} THEN 2 ELSE 1
        e == SkipDigits(text, i)
    IN IF e = i THEN old
       ELSE (IF i = 2 /\ text[1] = "-" THEN -1 ELSE 1) * DigitsVal(SubSeq(text, i, e - 1), 0)

\* the loop over os.Args: minRating after the arguments from position k on
RECURSIVE ParseArguments(_, _, _)
ParseArguments(args, k, min) ==
    IF k > Len(args) THEN min
    ELSE ParseArguments(args, k + 1,
             IF args[k] = S("--min-rating") /\ k + 1 <= Len(args)
             THEN Sscanf(args[k + 1], min) ELSE min)

\* a Message and a ToolCall of the fine-tuning format
Message(role, content, toolCalls) ==
    [Role |-> role, Content |-> content, ToolCalls |-> toolCalls]

FunctionCall(id, type, name, arguments) ==
    [ID |-> id, Type |-> type, Function |-> [Name |-> name, Arguments |-> arguments]]

\* one struct field decoded from a member of a parsed object
DecodeMember(obj, name, type, zero) ==
    LET val == FieldGet(obj, name) IN
    IF val.t \in {"absent", "null"} THEN [ok |-> TRUE, x |-> zero]
    ELSE IF val.t = type THEN [ok |-> TRUE, x |-> val.v]
    ELSE [ok |-> FALSE, x |-> zero]

\* one element of tool_calls decoded into a ToolCall
DecodeToolCall(val) ==
    IF val.t = "null" THEN [ok |-> TRUE, x |-> FunctionCall(<<>>, <<>>, <<>>, <<>>)]
    ELSE IF val.t # "obj" THEN [ok |-> FALSE, x |-> FunctionCall(<<>>, <<>>, <<>>, <<>>)]
    ELSE LET id == DecodeMember(val, S("id"), "str", <<>>)
             type == DecodeMember(val, S("type"), "str", <<>>)
             fn == FieldGet(val, S("function"))
             inner == IF fn.t = "obj" THEN fn ELSE JObj(<<>>)
             name == DecodeMember(inner, S("name"), "str", <<>>)
             arguments == DecodeMember(inner, S("arguments"), "str", <<>>)
         IN [ok |-> /\ id.ok /\ type.ok /\ name.ok /\ arguments.ok
                    /\ fn.t \in {"absent", "null", "obj"},
             x |-> FunctionCall(id.x, type.x, name.x, arguments.x)]

\* json.Unmarshal([]byte(logEntry.ModelResponse), &modelResp): role, content
\* and tool_calls of the response.  Message has the same three fields, so
\* the second attempt of createFineTuningExample fails when the first does.
UnmarshalModelResponse(s) ==
    LET zero == Message(<<>>, <<>>, <<>>)
        decode(r) ==
            IF ~r.ok THEN [ok |-> FALSE, x |-> zero]
            ELSE IF r.val.t = "null" THEN [ok |-> TRUE, x |-> zero]
            ELSE IF r.val.t # "obj" THEN [ok |-> FALSE, x |-> zero]
            ELSE LET role == DecodeMember(r.val, S("role"), "str", <<>>)
                     content == DecodeMember(r.val, S("content"), "str", <<>>)
                     tc == FieldGet(r.val, S("tool_calls"))
                     calls == IF tc.t = "arr"
                              THEN [k \in 1..Len(tc.v) |-> DecodeToolCall(tc.v[k])]
                              ELSE <<>>
                 IN [ok |-> /\ role.ok /\ content.ok
                            /\ tc.t \in {"absent", "null", "arr"}
                            /\ \A k \in 1..Len(calls) : calls[k].ok,
                     x |-> Message(role.x, content.x,
                                   [k \in 1..Len(calls) |-> calls[k].x])]
    IN decode(ParseJSON(s))

\* a tool result message for every entry, whatever its status and output
ToolResultMessages_Always(logEntry) ==
    << Message(S("tool"),
               S("Tool execution result:\nStatus: ") \o logEntry["status"]
               \o S("\nOutput: ") \o logEntry["output"], <<>>) >>

\* the tool message both builders add for a successful entry with output
ToolResultMessages(logEntry) ==
    IF logEntry["status"] = S("success") /\ logEntry["output"] # <<>>
    THEN << Message(S("tool"),
                    S("Tool execution result:\nStatus: ") \o logEntry["status"]
                    \o S("\nOutput: ") \o logEntry["output"], <<>>) >>
    ELSE <<>>

\* the *FineTuningExample no example stands for
NilExample == [isNil |-> TRUE, Messages |-> <<>>]
Example(messages) == [isNil |-> FALSE, Messages |-> messages]

\* createFineTuningExample(logEntry): the example and the error
createFineTuningExample(logEntry) ==
    IF logEntry["user_query"] = <<>> \/ logEntry["model_response"] = <<>>
    THEN [example |-> NilExample, err |-> S("missing user_query or model_response")]
    ELSE LET build(modelResp) ==
                 IF ~modelResp.ok
                 THEN [example |-> NilExample, err |-> S("failed to parse model_response")]
                 ELSE [example |->
                          Example(<< Message(S("user"), logEntry["user_query"], <<>>),
                                     Message(S("assistant"), modelResp.x.Content,
                                             IF Len(modelResp.x.ToolCalls) > 0
                                             THEN modelResp.x.ToolCalls
                                             ELSE << FunctionCall(S("call_1"), S("function"),
                                                                  logEntry["tool_name"],
                                                                  logEntry["arguments"]) >>) >>
                                  \o ToolResultMessages(logEntry)),
                       err |-> <<>>]
         IN build(UnmarshalModelResponse(logEntry["model_response"]))

\* reconstructUserQuery(logEntry): a query inferred from the tool call
reconstructUserQuery(logEntry) ==
    LET args == UnmarshalMap(logEntry["arguments"]).m IN
    IF logEntry["tool_name"] = S("run_commands")
    THEN LET cmd == AsString(MapGet(args, S("command"))) IN
         IF ~cmd.ok THEN S("Execute a command")
         ELSE IF HasPrefix(cmd.s, S("who")) \/ HasPrefix(cmd.s, S("w "))
              THEN S("Check current users")
         ELSE IF HasPrefix(cmd.s, S("pwd")) THEN S("What's the current directory?")
         ELSE IF HasPrefix(cmd.s, S("ls")) THEN S("List files in current directory")
         ELSE IF HasPrefix(cmd.s, S("ps")) THEN S("Show running processes")
         ELSE S("Execute: ") \o cmd.s
    ELSE IF logEntry["tool_name"] = S("edit_files")
    THEN LET path == AsString(MapGet(args, S("path"))) IN
         IF path.ok THEN S("Edit file: ") \o path.s ELSE S("Edit a file")
    ELSE S("Use tool: ") \o logEntry["tool_name"]

\* createAssistantResponse(logEntry): the formats after the first are raw
\* string literals, so their \n are a backslash and an n
createAssistantResponse(logEntry) ==
    S("I'll help you with that. Let me use the ") \o logEntry["tool_name"] \o S(" tool.")
    \o S("\\n\\n<tool_call>\\n")
    \o S("{\"id\": \"call_1\", \"type\": \"function\", \"function\": {\"name\": \"")
    \o logEntry["tool_name"] \o S("\", \"arguments\": ") \o logEntry["arguments"] \o S("}}")
    \o S("\\n</tool_call>")
    \o (IF logEntry["status"] = S("success") /\ logEntry["output"] # <<>>
        THEN S("\\n\\nTool execution completed successfully:\\n") \o logEntry["output"]
        ELSE IF logEntry["status"] = S("error")
        THEN S("\\n\\nTool execution failed: ") \o logEntry["message"]
        ELSE <<>>)

\* reconstructExample(logEntry)
reconstructExample(logEntry) ==
    Example(<< Message(S("user"), reconstructUserQuery(logEntry), <<>>),
               Message(S("assistant"), createAssistantResponse(logEntry),
                       << FunctionCall(S("call_1"), S("function"),
                                       logEntry["tool_name"], logEntry["arguments"]) >>) >>
            \o ToolResultMessages(logEntry))

\* what one turn of main's loop gives: the examples written (none or one)
\* and what is added to skipped and to oldFormat
Outcome(written, skippedMore, oldFormatMore) ==
    [written |-> written, skipped |-> skippedMore, oldFormat |-> oldFormatMore]

\* the turn from the return of createFineTuningExample on: r is that return
Created(logEntry, r) ==
    IF r.err # <<>> THEN Outcome(<<>>, 1, 0)
    ELSE IF r.example.isNil
    THEN IF logEntry["user_query"] = <<>>
         THEN IF reconstructExample(logEntry).isNil
              THEN Outcome(<<>>, 1, 1)
              ELSE Outcome(<<reconstructExample(logEntry)>>, 0, 1)
         ELSE Outcome(<<>>, 1, 1)
    ELSE Outcome(<<r.example>>, 0, 0)

\* the turn from the return of json.Unmarshal on: r is that return
Unmarshalled(r, min) ==
    IF ~r.ok THEN Outcome(<<>>, 1, 0)
    ELSE IF r.entry["rating"] > 0 /\ r.entry["rating"] < min THEN Outcome(<<>>, 1, 0)
    ELSE Created(r.entry, createFineTuningExample(r.entry))

\* one turn of main's loop on a line under minimum rating min
ScanOutcome(line, min) ==
    IF line.t = "blank" THEN Outcome(<<>>, 0, 0)
    ELSE Unmarshalled(UnmarshalEntry(line), min)

\* ------------------------------------------------------------------------
\* Inputs
\* ------------------------------------------------------------------------

\* longest list of structured tool calls in one model message
MaxCalls == 2

\* most appends in one run of the logger on its own
MaxAppends == 3

\* a structured tool call: function name and JSON-encoded arguments
ToolCall(name, arguments) == [Name |-> name, Arguments |-> arguments]
RunCall(command) == ToolCall(S("run_commands"), MarshalCommand(command))

\* commands a model may ask for
TurnCommands ==
    { S("who"), S("ls -l /tmp"), S("systemctl restart sshd"), S("echo hi > /tmp/a"),
      S("rm -rf /"), S("RM -RF /"), S("sudo rm -rf /usr/lib"), S("Rm -Rf /bin"),
      S("dd if=/dev/zero of=/dev/sda"), S("DD IF=/dev/zero"), S("mkfs.ext4 /dev/sda1"),
      S("sudo MKFS /dev/sdb"), S("fdisk -l"), S("echo FDisk"), S("shred -u a"),
      S("SHRED a"), S("cryptsetup luksFormat /dev/sdb"), S("x; CryptSetup close y"),
      S("chmod 777 /etc"), S("rm -r /tmp/x"), S("dd  if=/dev/zero"), S("rm\t-rf /") }

\* tool calls that appear in lists of any length
CoreCalls ==
    { RunCall(S("who")),
      RunCall(S("RM -rf /tmp/x")),
      ToolCall(S("run_commands"), S("{\"command\": \"\"}")),
      ToolCall(S("edit_files"), S("{\"path\": \"/tmp/a\", \"diff\": \"+x\"}")),
      ToolCall(S("systemctl"), S("{\"command\": \"status\"}")) }

\* tool calls that appear alone
SingleCalls ==
    { RunCall(c) : c \in TurnCommands } \cup
    { ToolCall(S("run_commands"), S("{\"command\": \"who\"")),
      ToolCall(S("run_commands"), S("{\"command\": 5}")),
      ToolCall(S("run_commands"), S("{\"command\": \"sleep 9\", \"timeout\": 1}")),
      ToolCall(S("run_commands"),
               S("{\"command\": \"tail -f /dev/null | cat\", \"timeout\": 1}")),
      ToolCall(S("run_commands"), S("{\"command\": \"who\", \"timeout\": 0}")),
      ToolCall(S("run_commands"), S("{\"Command\": \"mkfs /dev/sda\", \"timeout\": -1}")),
      ToolCall(S("run_commands"), S("null")),
      ToolCall(S("run_commands"), S("{\"command\": \"mkfs /dev/sda\", \"timeout\": \"1\"}")),
      ToolCall(S("edit_files"), S("{\"path\": \"/tmp/a\"}")),
      ToolCall(S("edit_files"), S("{\"path\": \"\", \"diff\": \"+x\"}")),
      ToolCall(S("edit_files"), S("{\"path\": 3}")),
      ToolCall(<<>>, S("{}")) }

RECURSIVE SeqsUpTo(_, _)
SeqsUpTo(set, n) ==
    IF n = 0 THEN {<<>>}
    ELSE LET shorter == SeqsUpTo(set, n - 1)
         IN shorter \cup {Append(q, x) : q \in {r \in shorter : Len(r) = n - 1}, x \in set}

ToolCallLists ==
    {<<c>> : c \in SingleCalls} \cup {q \in SeqsUpTo(CoreCalls, MaxCalls) : Len(q) >= 1}

\* content that holds {"command": "<command>"}
CommandContent(command) == S("{\"command\": \"") \o EscapeString(command) \o S("\"}")

\* message contents without structured tool calls
Contents ==
    { CommandContent(c) : c \in
        { S("who"), S("WHO"), S(" who "), S("Whoami"), S("ls"), S("LS -la"), S("w -h"),
          S("whois x"), S("cat /etc/shadow"), S("cat /x; rm -rf /"), S("Grep -r mkfs /"),
          S("rm -rf /"), S("systemctl restart sshd"), S("systemctl status sshd"),
          S("catalog"), S("ip link"), S("IP ADDR"), S("find / -delete"), S("uptime"),
          S("head -1 a && shred a"), S("lsblk"), S("tail -f /dev/null | cat") } } \cup
    { <<>>,
      S("The users are root and cal."),
      S("   "),
      Fence \o S("json\n{\"command\": \"rm -rf /\"}\n") \o Fence,
      Fence \o S("\n{\"command\": \"id\"}\n") \o Fence \o S("\n"),
      S("{\"name\": \"run_commands\", \"arguments\": {\"command\": \"df -h\"}}"),
      S("{\"name\": \"x\", \"arguments\": \"{\\\"command\\\": \\\"reboot\\\"}\"}"),
      S("{\"command\": \"\", \"arguments\": {\"command\": \"ps aux\"}}"),
      S("{\"command\": \"who\", \"arguments\": {\"command\": \"reboot\"}}"),
      S("{\"command\": 5, \"arguments\": \"{\\\"command\\\": \\\"id\\\"}\"}"),
      S("Run this: {\"command\": \"date\"} please"),
      S("{\"command\": 5}"),
      S("{\"cmd\": \"who\"}"),
      S("{\"note\": \"x\",\n\"command\": [\"who\"]}"),
      S("\"command\": \"who\""),
      S("use 'command': 'cat /etc/passwd'"),
      S("\"command\": {\"x\""),
      S("null") }

\* lines typed at the rating prompt (empty at end of input)
RatingInputs ==
    { S("5\n"), S("0\n"), S("6\n"), S("-1\n"), S("abc\n"), S(" 5 \n"), <<>> }

\* what a child process can do: pass its deadline, or exit with a code,
\* having written its combined output
ProcessOutcomes ==
    { [expired |-> FALSE, exitCode |-> x, output |-> o] :
        x \in {0, 1}, o \in {S("out\n")} } \cup
    { [expired |-> TRUE, exitCode |-> -1, output |-> S("out\n")] }

\* HTTP exchanges after which ExecuteTask has no message to work on
FailedExchanges ==
    { [kind |-> "unreachable", cause |-> S("connection refused")],
      [kind |-> "status", code |-> 500, body |-> S("model not loaded")],
      [kind |-> "status", code |-> 404, body |-> <<>>],
      [kind |-> "undecodable", cause |-> S("unexpected end of JSON input")],
      [kind |-> "ok", choices |-> <<>>] }

\* an earlier log line in the documented format
DocumentedLine(n) ==
    LineObj([timestamp |-> JStr(FormatTime(n)),
             model |-> JStr(S("qwen")),
             user_query |-> JStr(S("Check current users")),
             model_response |-> JStr(S("{\"role\":\"assistant\"}")),
             tool_name |-> JStr(S("run_commands")),
             arguments |-> JStr(S("{\"command\":\"who\"}")),
             status |-> JStr(S("success")),
             message |-> JStr(S("Command executed successfully")),
             output |-> JStr(S("cal pts/0\n")),
             tools_enabled |-> JBool(TRUE),
             rating |-> JNum((n % 5) + 1)])

\* an earlier log line as the logger itself writes it
WrittenLine(n) ==
    LineObj([timestamp |-> JStr(FormatTime(n)),
             model |-> JStr(S("qwen")),
             tool_name |-> JStr(S("run_commands")),
             arguments |-> JStr(S("{}")),
             status |-> JStr(S("error")),
             message |-> JStr(S("Command is required")),
             error_details |-> JStr(S("Command is required")),
             tools_enabled |-> JBool(TRUE)])

\* a line whose rating is a string, which does not decode
MistypedLine(n) ==
    LineObj([timestamp |-> JStr(FormatTime(n)), rating |-> JStr(S("5"))])

\* log files a task turn may start with
TurnLogFiles ==
    { <<>>, <<DocumentedLine(1), MalformedLine, WrittenLine(2)>> }

\* most lines of a log file put to the converter
MaxLogLines == 2

\* a line in the documented format without a rating
UnratedLine ==
    LineObj([timestamp |-> JStr(FormatTime(6)),
             model |-> JStr(S("qwen")),
             user_query |-> JStr(S("Where am I?")),
             model_response |-> JStr(S("{\"role\":\"assistant\",\"content\":\"pwd\"}")),
             tool_name |-> JStr(S("run_commands")),
             arguments |-> JStr(S("{\"command\":\"pwd\"}")),
             status |-> JStr(S("success")),
             message |-> JStr(S("Command executed successfully")),
             output |-> JStr(S("/root\n")),
             tools_enabled |-> JBool(TRUE)])

\* a line in the documented format whose model response holds the tool call
ToolCallsLine ==
    LineObj([timestamp |-> JStr(FormatTime(7)),
             model |-> JStr(S("qwen")),
             user_query |-> JStr(S("Format the disk")),
             model_response |->
                 JStr(S("{\"role\":\"assistant\",\"content\":\"\",\"tool_calls\":[{\"id\":\"c9\",")
                      \o S("\"type\":\"function\",\"function\":{\"name\":\"run_commands\",")
                      \o S("\"arguments\":\"{}\"}}]}")),
             tool_name |-> JStr(S("run_commands")),
             arguments |-> JStr(S("{}")),
             status |-> JStr(S("error")),
             message |-> JStr(S("Command is required")),
             tools_enabled |-> JBool(TRUE),
             rating |-> JNum(5)])

\* a line in the documented format whose model response is not JSON
UndecodableResponseLine ==
    LineObj([timestamp |-> JStr(FormatTime(8)),
             user_query |-> JStr(S("Hello")),
             model_response |-> JStr(S("Hi there")),
             tool_name |-> JStr(S("run_commands")),
             arguments |-> JStr(S("{}")),
             status |-> JStr(S("error")),
             rating |-> JNum(5)])

\* a line as the logger writes it after a command that succeeded, rated 5
WrittenRatedLine ==
    LineObj([timestamp |-> JStr(FormatTime(9)),
             model |-> JStr(S("qwen")),
             tool_name |-> JStr(S("run_commands")),
             arguments |-> JStr(S("{\"command\":\"ls\"}")),
             status |-> JStr(S("success")),
             message |-> JStr(S("Command executed successfully")),
             output |-> JStr(S("a.txt\n")),
             tools_enabled |-> JBool(TRUE),
             rating |-> JNum(5)])

\* lines of the log files put to the converter
ConverterLines ==
    { DocumentedLine(1), DocumentedLine(3), UnratedLine, ToolCallsLine,
      UndecodableResponseLine, WrittenLine(2), WrittenRatedLine,
      MistypedLine(1), MalformedLine, BlankLine }

ConverterLogFiles == SeqsUpTo(ConverterLines, MaxLogLines)

\* os.Args of a run of the converter
ConverterArgs ==
    { <<S("convert"), S("tool_calls.log")>>,
      <<S("convert"), S("tool_calls.log"), S("--min-rating"), S("1")>>,
      <<S("convert"), S("tool_calls.log"), S("out.jsonl"), S("--min-rating"), S("4")>>,
      <<S("convert"), S("tool_calls.log"), S("--min-rating"), S("5")>>,
      <<S("convert"), S("tool_calls.log"), S("--min-rating"), S("high")>>,
      <<S("convert"), S("tool_calls.log"), S("--min-rating")>> }

\* ------------------------------------------------------------------------
\* State
\* ------------------------------------------------------------------------

VARIABLES
    pc,          \* where ExecuteTask stands
    query,       \* the user's query
    tm,          \* the TaskManager: model, toolsEnabled
    message,     \* resp.Choices[0].Message: Content, ToolCalls
    idx,         \* position of the for loop in message.ToolCalls; 0 outside it
    call,        \* tool name and arguments of the invocation under way
    toolResult,  \* the TaskResponse of the invocation under way
    rating,      \* what promptRating returned for it
    typed,       \* the line put to the rating prompt on its own
    parsed,      \* what parseCommandFromResponse returned
    proc,        \* the running child process, <<>> when there is none
    spawned,     \* every command a child process was started for, in order
    cmdArg,      \* params.Command of the executeRunCommands call under way
    attempts,    \* positions of the tool calls dispatched so far, in order
    outcome,     \* how the turn ended
    now,         \* the clock
    logFile,     \* the lines of tool_calls.log
    prevLog,     \* the lines before the latest append
    lastEntry,   \* the entry of the latest append
    appends,     \* number of logToolCall calls so far
    writers,     \* the processes inside logToolCall at once, <<>> when none
    gateCmd,     \* the command put to both safety gates
    cliVerdict,  \* verdict of the CLI's isDangerousCommand on gateCmd
    feVerdict,   \* verdict of the front-end's isDangerousCommand on gateCmd
    taskErr,     \* the error ExecuteTask returned, <<>> when it returned none
    fsOps,       \* the filesystem calls made by edit_files, in order
    editArgs,    \* path, content and diff put to both edit_files tools
    cliEdit,     \* result of the CLI's executeEditFiles on editArgs
    feEdit,      \* result of the front-end's executeEditFilesTool on editArgs
    original,    \* the content applyDiff started from
    diff,        \* the diff applied to it
    patched,     \* the content after the applications so far
    applications,\* number of times the diff was applied
    minRating,   \* the converter's minimum rating
    lineNum,     \* number of log lines the converter has scanned
    examples,    \* the examples the converter has written, in order
    skipped,     \* the converter's count of skipped entries
    oldFormat    \* the converter's count of old-format entries

turnVars == <<pc, query, tm, message, idx, call, toolResult, rating, typed, parsed,
              proc, spawned, cmdArg, attempts, outcome, now>>
logVars == <<logFile, prevLog, lastEntry, appends, writers>>
gateVars == <<gateCmd, cliVerdict, feVerdict>>
editVars == <<fsOps, editArgs, cliEdit, feEdit>>
patchVars == <<original, diff, patched, applications>>
convVars == <<minRating, lineNum, examples, skipped, oldFormat>>
vars == <<turnVars, logVars, gateVars, taskErr, editVars, patchVars, convVars>>

NoCall == ToolCall(<<>>, <<>>)
NoParse == [command |-> <<>>, shouldExecute |-> FALSE, via |-> "none"]
NoMessage == [Content |-> <<>>, ToolCalls |-> <<>>]
NoEntry == [timestamp |-> 0]

\* the state of a process that has not received the model's response
TurnIdle ==
    /\ message = NoMessage /\ idx = 0 /\ call = NoCall /\ toolResult = NoResult
    /\ rating = 0 /\ typed = <<>> /\ parsed = NoParse /\ proc = <<>> /\ spawned = <<>>
    /\ cmdArg = <<>> /\ attempts = <<>> /\ outcome = "none"

LogIdle == prevLog = <<>> /\ lastEntry = NoEntry /\ appends = 0 /\ writers = <<>>

GateIdle == gateCmd = <<>> /\ cliVerdict = "none" /\ feVerdict = "none"

NoEditArgs == [path |-> <<>>, content |-> <<>>, diff |-> <<>>]

EditIdle ==
    fsOps = <<>> /\ editArgs = NoEditArgs /\ cliEdit = NoResult /\ feEdit = NoToolUse

PatchIdle == original = <<>> /\ diff = <<>> /\ patched = <<>> /\ applications = 0

ConvIdle ==
    minRating = 0 /\ lineNum = 0 /\ examples = <<>> /\ skipped = 0 /\ oldFormat = 0

\* RunTask / NewTaskManager: a turn about to send its request
Init ==
    /\ pc = "AwaitingModelResponse"
    /\ query = S("Check current users")
    /\ tm \in [model : {S("qwen2.5-coder:3b")}, toolsEnabled : BOOLEAN]
    /\ logFile \in TurnLogFiles
    /\ now = 10
    /\ taskErr = <<>>
    /\ TurnIdle /\ LogIdle /\ GateIdle /\ EditIdle /\ PatchIdle /\ ConvIdle

\* ------------------------------------------------------------------------
\* ExecuteTask
\* ------------------------------------------------------------------------

\* a ToolCallLog literal built before the rating prompt was read
NewLogEntry_BeforeRating ==
    [timestamp |-> now,
     model |-> tm.model,
     tool_name |-> call.Name,
     arguments |-> call.Arguments,
     status |-> toolResult.Status,
     message |-> toolResult.Message,
     output |-> toolResult.Output,
     tools_enabled |-> tm.toolsEnabled,
     rating |-> 0,
     error_details |-> IF toolResult.Status = S("error") THEN toolResult.Message ELSE <<>>]

\* the ToolCallLog literal built after an invocation (task.go 391-407 and
\* 449-465)
NewLogEntry ==
    [timestamp |-> now,
     model |-> tm.model,
     tool_name |-> call.Name,
     arguments |-> call.Arguments,
     status |-> toolResult.Status,
     message |-> toolResult.Message,
     output |-> toolResult.Output,
     tools_enabled |-> tm.toolsEnabled,
     rating |-> rating,
     error_details |-> IF toolResult.Status = S("error") THEN toolResult.Message ELSE <<>>]

\* a fallback that runs every recovered command
ShouldAutoExecute_AnyCommand(p) == p.command # <<>>

\* the guard of the fallback's execute branch (task.go 423)
ShouldAutoExecute(p) == p.shouldExecute /\ p.command # <<>>

\* a loop that handles the first call only
LoopContinues_FirstOnly(i, calls, result) == FALSE

\* a loop that stops at the first call that did not succeed
LoopContinues_UntilFailure(i, calls, result) ==
    i < Len(calls) /\ result.Status = S("success")

\* the for loop over message.ToolCalls goes on after call i (task.go 362)
LoopContinues(i, calls, result) == i < Len(calls)

\* a client that reports a non-200 status without the body of the response
Chat_BodyDropped(exchange) ==
    IF exchange.kind = "unreachable"
    THEN [err |-> S("failed to execute request: ") \o exchange.cause, choices |-> <<>>]
    ELSE IF exchange.kind = "status" /\ exchange.code # 200
    THEN [err |-> S("API error (status ") \o FormatInt(exchange.code) \o S(")"),
          choices |-> <<>>]
    ELSE IF exchange.kind = "undecodable"
    THEN [err |-> S("failed to decode response: ") \o exchange.cause, choices |-> <<>>]
    ELSE [err |-> <<>>, choices |-> exchange.choices]

\* TinyllamaClient.Chat on what the HTTP exchange gave: the error text, or
\* the choices of the decoded response
Chat(exchange) ==
    IF exchange.kind = "unreachable"
    THEN [err |-> S("failed to execute request: ") \o exchange.cause, choices |-> <<>>]
    ELSE IF exchange.kind = "status" /\ exchange.code # 200
    THEN [err |-> S("API error (status ") \o FormatInt(exchange.code) \o S("): ")
                  \o exchange.body,
          choices |-> <<>>]
    ELSE IF exchange.kind = "undecodable"
    THEN [err |-> S("failed to decode response: ") \o exchange.cause, choices |-> <<>>]
    ELSE [err |-> <<>>, choices |-> exchange.choices]

\* the error ExecuteTask returns after Chat, <<>> when it goes on (task.go
\* 333-340)
ChatError(r) ==
    IF r.err # <<>> THEN S("failed to get response from model: ") \o r.err
    ELSE IF Len(r.choices) = 0 THEN S("no response from model")
    ELSE <<>>

\* the model endpoint fails, or answers without choices: ExecuteTask returns
\* an error (task.go 333-340)
ChatFails ==
    /\ pc = "AwaitingModelResponse"
    /\ \E exchange \in FailedExchanges : taskErr' = ChatError(Chat(exchange))
    /\ pc' = "Failed"
    /\ outcome' = "error"
    /\ UNCHANGED <<query, tm, message, idx, call, toolResult, rating, typed, parsed, proc,
                   spawned, cmdArg, attempts, now>>
    /\ UNCHANGED <<logVars, gateVars, editVars, patchVars, convVars>>

\* the model answers with a message (task.go 342-359)
ChatAnswers ==
    /\ pc = "AwaitingModelResponse"
    /\ \E calls \in ToolCallLists \cup {<<>>} :
       \E content \in IF calls = <<>> THEN Contents ELSE {<<>>, S("ok")} :
         /\ message' = Chat([kind |-> "ok",
                              choices |-> <<[Content |-> content,
                                             ToolCalls |-> calls]>>]).choices[1]
         /\ IF Len(calls) > 0
            THEN pc' = "Dispatch" /\ idx' = 1
            ELSE pc' = "Interpret" /\ idx' = 0
    /\ UNCHANGED <<query, tm, call, toolResult, rating, typed, parsed, proc, spawned, cmdArg,
                   attempts, outcome, now>>
    /\ UNCHANGED <<logVars, gateVars, taskErr, editVars, patchVars, convVars>>

\* executeRunCommands is entered with the arguments: it returns at once, or
\* starts the child and waits for it
EnterRunCommands(arguments) ==
    LET enter(r) ==
            /\ cmdArg' = r.command
            /\ IF r.spawn
               THEN /\ proc' = <<[command |-> r.command, timeout |-> r.timeout,
                                   state |-> "running", exitCode |-> 0,
                                   output |-> <<>>]>>
                    /\ spawned' = Append(spawned, r.command)
                    /\ pc' = "Running"
                    /\ UNCHANGED toolResult
               ELSE /\ toolResult' = r.result
                    /\ pc' = "Rate"
                    /\ proc' = <<>>
                    /\ UNCHANGED spawned
    IN enter(executeRunCommands(arguments))

\* one iteration of the loop over the structured tool calls, up to the
\* tool's return or the child's start (task.go 362-377)
Dispatch ==
    /\ pc = "Dispatch"
    /\ LET toolCall == message.ToolCalls[idx] IN
         /\ call' = toolCall
         /\ attempts' = Append(attempts, idx)
         /\ IF toolCall.Name = S("edit_files")
            THEN /\ toolResult' = executeEditFiles(toolCall.Arguments)
                 /\ pc' = "Rate"
                 /\ cmdArg' = <<>>
                 /\ proc' = <<>>
                 /\ UNCHANGED spawned
            ELSE IF toolCall.Name = S("run_commands")
            THEN EnterRunCommands(toolCall.Arguments)
            ELSE /\ toolResult' = UnknownTool(toolCall.Name)
                 /\ pc' = "Rate"
                 /\ cmdArg' = <<>>
                 /\ proc' = <<>>
                 /\ UNCHANGED spawned
    /\ UNCHANGED <<query, tm, message, idx, rating, typed, parsed, outcome, now>>
    /\ UNCHANGED <<logVars, gateVars, taskErr, editVars, patchVars, convVars>>

\* the branch for a message without tool calls (task.go 410-491)
Interpret ==
    /\ pc = "Interpret"
    /\ LET branch(p) ==
               /\ parsed' = p
               /\ IF ShouldAutoExecute(p)
                  THEN /\ call' = ToolCall(S("run_commands"), MarshalCommand(p.command))
                       /\ EnterRunCommands(MarshalCommand(p.command))
                       /\ UNCHANGED outcome
                  ELSE /\ pc' = "Done"
                       /\ outcome' = IF p.command # <<>> THEN "suggested"
                                     ELSE IF message.Content # <<>> THEN "displayed"
                                     ELSE "completed"
                       /\ UNCHANGED <<call, toolResult, proc, spawned, cmdArg>>
       IN branch(parseCommandFromResponse(message.Content))
    /\ UNCHANGED <<query, tm, message, idx, rating, typed, attempts, now>>
    /\ UNCHANGED <<logVars, gateVars, taskErr, editVars, patchVars, convVars>>

\* bash -c runs a command with one of these characters as a list or a
\* pipeline: it starts further processes, which inherit the output pipe
LeavesDescendants(command) == \E k \in 1..Len(command) : command[k] \in {"|", "&", ";"}

\* the deadline of the context passes and the shell is killed while
\* processes it started still hold the output pipe: cmd.CombinedOutput goes
\* on reading the pipe until they close it (task.go 566-573)
DeadlineKills ==
    /\ pc = "Running" /\ proc[1].state = "running"
    /\ LeavesDescendants(proc[1].command)
    /\ proc' = <<[proc[1] EXCEPT !.state = "killed"]>>
    /\ UNCHANGED <<pc, query, tm, message, idx, call, toolResult, rating, typed, parsed, spawned,
                   cmdArg, attempts, outcome, now>>
    /\ UNCHANGED <<logVars, gateVars, taskErr, editVars, patchVars, convVars>>

\* cmd.CombinedOutput returns (task.go 573-593): the child has exited, or
\* the deadline passed and it was killed, and the output pipe is closed
CommandReturns ==
    /\ pc = "Running"
    /\ \E o \in ProcessOutcomes :
         /\ proc[1].state = "killed" => o.expired
         /\ toolResult' = CommandResult(o.expired, o.exitCode, o.output)
         /\ proc' = <<[proc[1] EXCEPT !.state = IF o.expired THEN "timedOut" ELSE "exited",
                                      !.exitCode = o.exitCode,
                                      !.output = o.output]>>
    /\ pc' = "Rate"
    /\ UNCHANGED <<query, tm, message, idx, call, rating, typed, parsed, spawned, cmdArg,
                   attempts, outcome, now>>
    /\ UNCHANGED <<logVars, gateVars, taskErr, editVars, patchVars, convVars>>

\* the rating prompt is answered (task.go 385 and 443)
Rate ==
    /\ pc = "Rate"
    /\ \E input \in RatingInputs : rating' = promptRating(input)
    /\ pc' = "Log"
    /\ UNCHANGED <<query, tm, message, idx, call, toolResult, typed, parsed, proc,
                   spawned, cmdArg, attempts, outcome, now>>
    /\ UNCHANGED <<logVars, gateVars, taskErr, editVars, patchVars, convVars>>

\* the entry is logged and the loop goes on or the turn ends (task.go
\* 390-409 and 448-466)
Log ==
    /\ pc = "Log"
    /\ logFile' = logToolCall(logFile, NewLogEntry)
    /\ prevLog' = logFile
    /\ lastEntry' = NewLogEntry
    /\ appends' = appends + 1
    /\ now' = now + 1
    /\ IF idx > 0 /\ LoopContinues(idx, message.ToolCalls, toolResult)
       THEN pc' = "Dispatch" /\ idx' = idx + 1 /\ UNCHANGED outcome
       ELSE pc' = "Done" /\ idx' = idx
            /\ outcome' = IF idx > 0 THEN "tools" ELSE "executed"
    /\ UNCHANGED <<query, tm, message, call, toolResult, rating, typed, parsed, proc, spawned,
                   cmdArg, attempts, writers>>
    /\ UNCHANGED <<gateVars, taskErr, editVars, patchVars, convVars>>

Next ==
    \/ ChatFails \/ ChatAnswers \/ Dispatch \/ Interpret
    \/ DeadlineKills \/ CommandReturns \/ Rate \/ Log

Spec == Init /\ [][Next]_vars

\* the deadline of the context ends every shell that was started: it exits on
\* its own, or it is killed when the deadline passes
ShellEnds ==
    /\ pc = "Running" /\ proc[1].state = "running"
    /\ (CommandReturns \/ DeadlineKills)

\* a task turn in which deadlines pass
SpecFair == Spec /\ WF_vars(ShellEnds)

\* ExecuteTask does not halt between its statements: it leaves the switch
\* over the tool name and the branch for a message without tool calls.
\* Dispatch is enabled exactly when pc = "Dispatch" and Interpret exactly
\* when pc = "Interpret", and each of them leaves that place, so this is
\* weak fairness of the two actions.
ProgramRuns == []<>(pc \notin {"Dispatch", "Interpret"})

\* a task turn in which deadlines pass, the program runs on, and the rating
\* prompt is answered or at end of input
SpecLive == Spec /\ WF_vars(ShellEnds) /\ WF_vars(Rate) /\ WF_vars(Log) /\ ProgramRuns

\* ------------------------------------------------------------------------
\* The two safety gates side by side
\* ------------------------------------------------------------------------

\* commands put to both gates: a prefix, a body and a suffix
GateCommands ==
    { pre \o body \o suf :
        pre \in { <<>>, S("sudo "), S("echo ") },
        body \in TurnCommands \cup
                 { S("chown root:root /etc/passwd"), S("chown root /etc"),
                   S("CHMOD  777 ."), S("rm -rf /usr"), S("rm -rf  /bin") },
        suf \in { <<>>, S(" "), S("x") } }

InitGate ==
    /\ pc = "Gate"
    /\ query = <<>>
    /\ tm = [model |-> <<>>, toolsEnabled |-> TRUE]
    /\ logFile = <<>>
    /\ now = 10
    /\ taskErr = <<>>
    /\ TurnIdle /\ LogIdle /\ EditIdle /\ PatchIdle /\ ConvIdle
    /\ gateCmd \in GateCommands
    /\ cliVerdict = "none" /\ feVerdict = "none"

Verdict(dangerous) == IF dangerous THEN "dangerous" ELSE "safe"

\* the CLI's gate is asked about the command
CliGate ==
    /\ pc = "Gate" /\ cliVerdict = "none"
    /\ cliVerdict' = Verdict(isDangerousCommand(gateCmd))
    /\ UNCHANGED <<gateCmd, feVerdict, turnVars, logVars>>
    /\ UNCHANGED <<taskErr, editVars, patchVars, convVars>>

\* the front-end's gate is asked about the command
FrontEndGate ==
    /\ pc = "Gate" /\ feVerdict = "none"
    /\ feVerdict' = Verdict(ToolExecutor_isDangerousCommand(gateCmd))
    /\ UNCHANGED <<gateCmd, cliVerdict, turnVars, logVars>>
    /\ UNCHANGED <<taskErr, editVars, patchVars, convVars>>

NextGate == CliGate \/ FrontEndGate

SpecGate == InitGate /\ [][NextGate]_vars

\* ------------------------------------------------------------------------
\* The two edit_files tools side by side
\* ------------------------------------------------------------------------

\* edit_files inputs: path, content and diff
EditInputs ==
    [ path : { <<>>, S("/tmp/a"), S("/tmp/d/b") },
      content : { <<>>, S("x\n"), S("line1") },
      diff : { <<>>, S("+x"), S(" line1\n+line2\n-line1"), S("-a") } ]

\* the arguments of the tool call that carries the inputs
MarshalEditArgs(args) ==
    S("{\"path\": \"") \o EscapeString(args.path)
    \o S("\", \"content\": \"") \o EscapeString(args.content)
    \o S("\", \"diff\": \"") \o EscapeString(args.diff) \o S("\"}")

InitEdit ==
    /\ pc = "Edit"
    /\ query = <<>>
    /\ tm = [model |-> <<>>, toolsEnabled |-> TRUE]
    /\ logFile = <<>>
    /\ now = 10
    /\ taskErr = <<>>
    /\ TurnIdle /\ LogIdle /\ GateIdle /\ PatchIdle /\ ConvIdle
    /\ editArgs \in EditInputs
    /\ fsOps = <<>> /\ cliEdit = NoResult /\ feEdit = NoToolUse

\* the CLI's executeEditFiles is called with the inputs; it makes no
\* filesystem call
CliEdit ==
    /\ pc = "Edit" /\ cliEdit = NoResult
    /\ cliEdit' = executeEditFiles(MarshalEditArgs(editArgs))
    /\ UNCHANGED <<fsOps, editArgs, feEdit>>
    /\ UNCHANGED <<turnVars, logVars, gateVars, taskErr, patchVars, convVars>>

\* the front-end's executeEditFilesTool is called with the inputs, the file
\* at the path holding line1
FrontEndEdit ==
    /\ pc = "Edit" /\ feEdit = NoToolUse
    /\ LET edit(r) == feEdit' = r.result /\ fsOps' = fsOps \o r.ops
       IN edit(executeEditFilesTool(editArgs.path, editArgs.content, editArgs.diff,
                                    S("line1")))
    /\ UNCHANGED <<editArgs, cliEdit>>
    /\ UNCHANGED <<turnVars, logVars, gateVars, taskErr, patchVars, convVars>>

NextEdit == CliEdit \/ FrontEndEdit

SpecEdit == InitEdit /\ [][NextEdit]_vars

\* ------------------------------------------------------------------------
\* The patch operator on its own
\* ------------------------------------------------------------------------

\* most lines in a diff
MaxDiffLines == 3

\* most applications of one diff
MaxApplications == 2

\* lines a diff is made of: context, insertion, deletion, blank, hunk header
DiffLines ==
    { S(" line1"), S(" x"), S("+line2"), S("+"), S("-line1"), <<>>, S("@@ -1 +1 @@") }

\* the diff of the README's TypeScript example (README.md 226), and diffs
\* made of its file header lines
HeaderDiffs ==
    { S("--- original\n+++ new\n@@ -1 +1 @@\n-old-hostname\n+new-hostname"),
      S("--- original\n+++ new"),
      S("--- original"),
      S("+++ new") }

Diffs ==
    { Join(q, S("\n")) : q \in {r \in SeqsUpTo(DiffLines, MaxDiffLines) : Len(r) >= 1} }
    \cup HeaderDiffs

\* contents a diff is applied to
Originals ==
    { <<>>, S("line1"), S("a\nb"), S("line1\nb\nc"), S("a\n"), S("\n"),
      S("old-hostname") }

InitPatch ==
    /\ pc = "Patch"
    /\ query = <<>>
    /\ tm = [model |-> <<>>, toolsEnabled |-> TRUE]
    /\ logFile = <<>>
    /\ now = 10
    /\ taskErr = <<>>
    /\ TurnIdle /\ LogIdle /\ GateIdle /\ EditIdle /\ ConvIdle
    /\ original \in Originals
    /\ diff \in Diffs
    /\ patched = original
    /\ applications = 0

\* applyDiff is called on the content with the diff
ApplyPatch ==
    /\ pc = "Patch" /\ applications < MaxApplications
    /\ patched' = applyDiff(patched, diff)
    /\ applications' = applications + 1
    /\ UNCHANGED <<original, diff>>
    /\ UNCHANGED <<turnVars, logVars, gateVars, taskErr, editVars, convVars>>

NextPatch == ApplyPatch

SpecPatch == InitPatch /\ [][NextPatch]_vars

\* ------------------------------------------------------------------------
\* The log converter
\* ------------------------------------------------------------------------

\* the converter starts on a log file with the minimum rating of its
\* arguments, 3 without the option
InitConvert ==
    /\ pc = "Convert"
    /\ query = <<>>
    /\ tm = [model |-> <<>>, toolsEnabled |-> TRUE]
    /\ logFile \in ConverterLogFiles
    /\ now = 10
    /\ taskErr = <<>>
    /\ TurnIdle /\ LogIdle /\ GateIdle /\ EditIdle /\ PatchIdle
    /\ minRating \in {ParseArguments(args, 1, 3) : args \in ConverterArgs}
    /\ lineNum = 0
    /\ examples = <<>>
    /\ skipped = 0
    /\ oldFormat = 0

\* one turn of the loop over the lines of the input file
ScanLine ==
    /\ pc = "Convert" /\ lineNum < Len(logFile)
    /\ lineNum' = lineNum + 1
    /\ LET apply(o) ==
               /\ examples' = examples \o o.written
               /\ skipped' = skipped + o.skipped
               /\ oldFormat' = oldFormat + o.oldFormat
       IN apply(ScanOutcome(logFile[lineNum + 1], minRating))
    /\ UNCHANGED minRating
    /\ UNCHANGED <<turnVars, logVars, gateVars, taskErr, editVars, patchVars>>

NextConvert == ScanLine

SpecConvert == InitConvert /\ [][NextConvert]_vars

\* ------------------------------------------------------------------------
\* The logger on its own
\* ------------------------------------------------------------------------

\* a short earlier log line
ShortLine(n) ==
    LineObj([timestamp |-> JStr(FormatTime(n)),
             tool_name |-> JStr(S("t")),
             status |-> JStr(S("ok"))])

\* a file of n short lines
FilledFile(n) == [k \in 1..n |-> ShortLine(k)]

\* log files the logger may find: missing or empty, a few lines of every
\* kind, and files around the cap
LogFiles ==
    { <<>>,
      <<DocumentedLine(1), MalformedLine, BlankLine, WrittenLine(2), MistypedLine(3),
        JNull, DocumentedLine(4)>>,
      FilledFile(maxEntries - 2),
      FilledFile(maxEntries - 1),
      FilledFile(maxEntries),
      <<MalformedLine>> \o FilledFile(maxEntries) \o <<BlankLine>>,
      FilledFile(maxEntries + 1),
      FilledFile(maxEntries + 3),
      <<BlankLine, WrittenLine(5), MalformedLine>>,
      <<DocumentedLine(0)>> \o FilledFile(maxEntries - 1) }

\* results of tool invocations to be logged
LoggedResults ==
    { TaskResponse(S("success"), S("Command executed successfully"), S("out\n")),
      TaskResponse(S("error"), S("Command is required"), <<>>) }

InitLog ==
    /\ pc = "Logger"
    /\ query = <<>>
    /\ tm = [model |-> S("qwen2.5-coder:3b"), toolsEnabled |-> TRUE]
    /\ logFile \in LogFiles
    /\ now = maxEntries + 10
    /\ taskErr = <<>>
    /\ TurnIdle /\ LogIdle /\ GateIdle /\ EditIdle /\ PatchIdle /\ ConvIdle

\* logToolCall is called with the entry of an invocation
AppendEntry ==
    /\ pc = "Logger" /\ appends < MaxAppends
    /\ \E result \in LoggedResults :
         /\ call' = RunCall(S("who"))
         /\ toolResult' = result
         /\ rating' = IF result.Status = S("success") THEN 4 ELSE 0
    /\ LET append(entry) ==
               /\ logFile' = logToolCall(logFile, entry)
               /\ lastEntry' = entry
       IN append([timestamp |-> now,
                  model |-> tm.model,
                  tool_name |-> call'.Name,
                  arguments |-> call'.Arguments,
                  status |-> toolResult'.Status,
                  message |-> toolResult'.Message,
                  output |-> toolResult'.Output,
                  tools_enabled |-> tm.toolsEnabled,
                  rating |-> rating',
                  error_details |-> IF toolResult'.Status = S("error")
                                    THEN toolResult'.Message ELSE <<>>])
    /\ prevLog' = logFile
    /\ appends' = appends + 1
    /\ now' = now + 1
    /\ UNCHANGED <<pc, query, tm, message, idx, typed, parsed, proc, spawned, cmdArg,
                   attempts, outcome, writers>>
    /\ UNCHANGED <<gateVars, taskErr, editVars, patchVars, convVars>>

NextLog == AppendEntry

SpecLog == InitLog /\ [][NextLog]_vars

\* ------------------------------------------------------------------------
\* The rating prompt on its own
\* ------------------------------------------------------------------------

\* lines the rating prompt may read: every rating, signs, leading zeros,
\* fractions, words, values out of range, a last line without its newline,
\* and end of input
TypedLines ==
    { S("0\n"), S("1\n"), S("2\n"), S("3\n"), S("4\n"), S("5\n"), S(" 5 \n"),
      S("+4\n"), S("05\n"), S("3"), S("6\n"), S("-1\n"), S("10\n"), S("3.5\n"),
      S("abc\n"), S("five\n"), S("4 stars\n"), S("\n"), <<>> }

\* tool calls whose result is there as soon as they are dispatched
RatedCalls ==
    { ToolCall(S("edit_files"), S("{\"path\": \"/tmp/a\", \"diff\": \"+x\"}")),
      ToolCall(S("edit_files"), S("{\"path\": \"/tmp/a\"}")),
      ToolCall(S("systemctl"), S("{\"command\": \"status\"}")) }

\* ExecuteTask has run the only tool call of the message and is about to
\* prompt for its rating (task.go 372-385)
InitRate ==
    /\ pc = "Rate"
    /\ query = S("Check current users")
    /\ tm \in [model : {S("qwen2.5-coder:3b")}, toolsEnabled : BOOLEAN]
    /\ call \in RatedCalls
    /\ message = [Content |-> <<>>, ToolCalls |-> <<call>>]
    /\ idx = 1 /\ attempts = <<1>>
    /\ toolResult = IF call.Name = S("edit_files")
                    THEN executeEditFiles(call.Arguments)
                    ELSE UnknownTool(call.Name)
    /\ typed \in TypedLines
    /\ rating = 0 /\ parsed = NoParse /\ proc = <<>> /\ spawned = <<>>
    /\ cmdArg = <<>> /\ outcome = "none"
    /\ logFile \in TurnLogFiles
    /\ now = 10
    /\ taskErr = <<>>
    /\ LogIdle /\ GateIdle /\ EditIdle /\ PatchIdle /\ ConvIdle

\* promptRating reads the line and returns (task.go 148-160, called at 385)
RateTyped ==
    /\ pc = "Rate"
    /\ rating' = promptRating(typed)
    /\ pc' = "Log"
    /\ UNCHANGED <<query, tm, message, idx, call, toolResult, typed, parsed, proc,
                   spawned, cmdArg, attempts, outcome, now>>
    /\ UNCHANGED <<logVars, gateVars, taskErr, editVars, patchVars, convVars>>

NextRate == RateTyped \/ Log

SpecRate == InitRate /\ [][NextRate]_vars

\* ------------------------------------------------------------------------
\* Two processes in logToolCall at once
\* ------------------------------------------------------------------------

\* the task processes that log to the same file
Writers == 1..2

\* log files two processes may find
SharedLogFiles ==
    { <<>>,
      <<DocumentedLine(1), MalformedLine, WrittenLine(2)>>,
      FilledFile(maxEntries - 1),
      FilledFile(maxEntries) }

\* the entry process p is about to log for a tool result
WriterEntry(p, result) ==
    [timestamp |-> 2000 + p,
     model |-> S("qwen2.5-coder:3b"),
     tool_name |-> S("run_commands"),
     arguments |-> MarshalCommand(IF p = 1 THEN S("who") ELSE S("id")),
     status |-> result.Status,
     message |-> result.Message,
     output |-> result.Output,
     tools_enabled |-> TRUE,
     rating |-> p,
     error_details |-> IF result.Status = S("error") THEN result.Message ELSE <<>>]

\* both processes have entered logToolCall and neither has read the file
InitRace ==
    /\ pc = "Race"
    /\ query = <<>>
    /\ tm = [model |-> S("qwen2.5-coder:3b"), toolsEnabled |-> TRUE]
    /\ logFile \in SharedLogFiles
    /\ \E results \in [Writers -> LoggedResults] :
         writers = [p \in Writers |->
                      [at |-> "entered", logEntry |-> WriterEntry(p, results[p]),
                       logLines |-> <<>>]]
    /\ prevLog = <<>> /\ lastEntry = NoEntry /\ appends = 0
    /\ now = 2000
    /\ taskErr = <<>>
    /\ TurnIdle /\ GateIdle /\ EditIdle /\ PatchIdle /\ ConvIdle

\* process p reads the file, appends its entry to what it decoded, rotates
\* and encodes (task.go 104-132); all of it works on p's own copy
ReadFile(p) ==
    /\ pc = "Race" /\ writers[p].at = "entered"
    /\ writers' = [writers EXCEPT ![p].at = "read",
                                  ![p].logLines = logToolCall(logFile, writers[p].logEntry)]
    /\ UNCHANGED <<logFile, prevLog, lastEntry, appends>>
    /\ UNCHANGED <<turnVars, gateVars, taskErr, editVars, patchVars, convVars>>

\* process p replaces the file by its lines (task.go 134-135); os.WriteFile
\* is taken as one step
WriteFile(p) ==
    /\ pc = "Race" /\ writers[p].at = "read"
    /\ logFile' = writers[p].logLines
    /\ prevLog' = logFile
    /\ lastEntry' = writers[p].logEntry
    /\ appends' = appends + 1
    /\ writers' = [writers EXCEPT ![p].at = "returned"]
    /\ UNCHANGED <<turnVars, gateVars, taskErr, editVars, patchVars, convVars>>

NextRace == \E p \in Writers : ReadFile(p) \/ WriteFile(p)

SpecRace == InitRace /\ [][NextRace]_vars

\* ------------------------------------------------------------------------
\* Claims
\* ------------------------------------------------------------------------

\* the denylist substrings as the specification lists them
DenylistSubstrings ==
    { S("rm -rf /"), S("rm -rf /usr"), S("rm -rf /bin"), S("dd if="),
      S("mkfs"), S("fdisk"), S("shred"), S("cryptsetup") }

\* command holds a denylist substring at some position, letter case aside
Denylisted(command) ==
    \E p \in DenylistSubstrings : \E i \in 0..(Len(command) - Len(p)) :
        \A j \in 1..Len(p) : ToLowerChar(command[i + j]) = p[j]

\* C1: a command that holds a denylist substring, in any letter case, makes
\* run_commands return status denied and no child process is ever started
\* for it, both for a structured tool call and for a command the fallback
\* recovered from the content and put to run_commands.  The command of a
\* call is the one its arguments decode to; arguments that do not decode
\* give no command, and no child either.
C1_DenylistedDeniedNeverSpawned ==
    /\ \A k \in 1..Len(spawned) : ~Denylisted(spawned[k])
    /\ pc = "Running" => ~Denylisted(proc[1].command)
    /\ (pc \in {"Rate", "Log"} /\ Denylisted(cmdArg)) =>
           IF DecodeRunParams(call.Arguments).err
           THEN toolResult.Status = S("error") /\ proc = <<>>
           ELSE toolResult.Status = S("denied") /\ proc = <<>>
    /\ (pc \in {"Running", "Rate", "Log"} /\ idx = 0) => cmdArg = parsed.command

\* C1 witness: the fallback put a recovered command holding a denylist
\* substring to run_commands, which denied it without starting a child
C1_Witness ==
    /\ pc = "Rate" /\ idx = 0 /\ Denylisted(cmdArg)
    /\ toolResult.Status = S("denied") /\ spawned = <<>>

\* C2: both gates give the same verdict on every command.
C2_GatesAgree ==
    (cliVerdict # "none" /\ feVerdict # "none") => cliVerdict = feVerdict

\* the read-only allowlist and the read-only verbs as the specification
\* lists them
AllowlistEntries ==
    { S("who"), S("w"), S("users"), S("whoami"), S("id"), S("cat /etc/passwd"),
      S("getent passwd"), S("cut -d: -f1 /etc/passwd"), S("ls"), S("pwd"), S("date"),
      S("uptime"), S("uname"), S("hostname"), S("df"), S("free"), S("ps"),
      S("systemctl list-units"), S("systemctl status"), S("netstat"), S("ss"),
      S("ip addr"), S("ip route") }

ReadOnlyVerbs ==
    { S("cat"), S("less"), S("head"), S("tail"), S("grep"), S("find"), S("ls"),
      S("getent"), S("cut") }

\* c starts with p
StartsWith(c, p) == Len(c) >= Len(p) /\ \A j \in 1..Len(p) : c[j] = p[j]

\* c starts with p, letter case aside
StartsWithFolded(c, p) ==
    Len(c) >= Len(p) /\ \A j \in 1..Len(p) : ToLowerChar(c[j]) = p[j]

\* c is an allowlist entry, or an entry followed by a space, or starts with a
\* read-only verb followed by a space
OnAllowlist(c) ==
    \/ \E e \in AllowlistEntries :
         StartsWith(c, e) /\ (Len(c) = Len(e) \/ c[Len(e) + 1] = " ")
    \/ \E v \in ReadOnlyVerbs : StartsWith(c, Append(v, " "))

\* the same test, letter case aside
OnAllowlistFolded(c) ==
    \/ \E e \in AllowlistEntries :
         StartsWithFolded(c, e) /\ (Len(c) = Len(e) \/ c[Len(e) + 1] = " ")
    \/ \E v \in ReadOnlyVerbs : StartsWithFolded(c, Append(v, " "))

\* the turn has no structured tool calls and the interpreter has returned
Interpreted ==
    Len(message.ToolCalls) = 0 /\ pc \in {"Running", "Rate", "Log", "Done"}

\* C3 as stated: for a command recovered from JSON content the auto-execute
\* flag is true exactly when the command itself is an allowlist entry, an
\* entry followed by a space, or starts with a read-only verb and a space.
C3_FlagIffCommandOnAllowlist ==
    (Interpreted /\ parsed.via = "json") =>
        (parsed.shouldExecute <=> OnAllowlist(parsed.command))

\* C3 amended: for a command recovered from JSON content the auto-execute
\* flag is true exactly when the command, trimmed of surrounding whitespace
\* and with letter case aside, is an allowlist entry, an entry followed by a
\* space, or starts with a read-only verb and a space; {"command": "who"}
\* gives ("who", true) and "cat /etc/shadow" gives true.
C3_FlagIffNormalisedCommandOnAllowlist ==
    /\ (Interpreted /\ parsed.via = "json") =>
           (parsed.shouldExecute <=> OnAllowlistFolded(TrimSpace(parsed.command)))
    /\ (Interpreted /\ message.Content = CommandContent(S("who"))) =>
           parsed = [command |-> S("who"), shouldExecute |-> TRUE, via |-> "json"]
    /\ (Interpreted /\ message.Content = CommandContent(S("cat /etc/shadow"))) =>
           (parsed.command = S("cat /etc/shadow") /\ parsed.shouldExecute)

\* C3 witness: a command recovered from JSON that is no allowlist entry as
\* written, but is one once lowered, got the flag
C3_Witness ==
    /\ Interpreted /\ parsed.via = "json"
    /\ parsed.command = S("WHO") /\ parsed.shouldExecute

\* C4: in a turn without structured tool calls a child process is started
\* only for the one command the interpreter recovered from JSON with the
\* auto-execute flag set, which is non-empty and matches the allowlist; any
\* other recovered command, and every command the line scan recovered, is
\* suggested and nothing is started.
C4_OnlyAllowlistedAutoExecuted ==
    Len(message.ToolCalls) = 0 =>
        /\ spawned # <<>> =>
               /\ spawned = <<parsed.command>>
               /\ parsed.shouldExecute /\ parsed.command # <<>> /\ parsed.via = "json"
               /\ OnAllowlistFolded(TrimSpace(parsed.command))
        /\ (Interpreted /\ parsed.command # <<>> /\ ~parsed.shouldExecute) =>
               (pc = "Done" /\ outcome = "suggested" /\ spawned = <<>>)
        /\ (Interpreted /\ parsed.via = "scan") =>
               (pc = "Done" /\ outcome = "suggested" /\ spawned = <<>>)
        /\ (Interpreted /\ parsed.via = "json" /\ parsed.command # <<>>
              /\ ~OnAllowlistFolded(TrimSpace(parsed.command))) =>
               (pc = "Done" /\ outcome = "suggested" /\ spawned = <<>>)

\* C4 witness: a child runs for an allowlisted command recovered from the
\* content of a message without tool calls
C4_Witness ==
    /\ Len(message.ToolCalls) = 0 /\ pc = "Running"
    /\ parsed.shouldExecute /\ spawned = <<S("cat /etc/shadow")>>

\* C5: the structured tool calls of a message are attempted once each, in
\* the order given and one at a time, and the turn ends only when all were
\* attempted, whatever the earlier calls returned; an unknown tool gives an
\* error result whose message names the tool.
C5_EveryCallAttemptedInOrder ==
    /\ \A k \in 1..Len(attempts) : attempts[k] = k
    /\ Len(attempts) <= Len(message.ToolCalls)
    /\ Len(proc) <= 1
    /\ pc = "Dispatch" => (idx = Len(attempts) + 1 /\ idx <= Len(message.ToolCalls))
    /\ (pc \in {"Running", "Rate", "Log"} /\ idx > 0) =>
           (idx = Len(attempts) /\ call = message.ToolCalls[idx])
    /\ (pc \in {"Done", "Failed"} /\ Len(message.ToolCalls) > 0) =>
           (pc = "Done" /\ Len(attempts) = Len(message.ToolCalls))
    /\ (pc \in {"Rate", "Log"} /\ idx > 0
          /\ call.Name \notin {S("edit_files"), S("run_commands")}) =>
           /\ toolResult.Status = S("error")
           /\ toolResult.Message = S("Unknown tool: ") \o call.Name

\* C5 witness: a turn ended after both of its calls were attempted, the first
\* of which named an unknown tool and was logged with status error
C5_Witness ==
    /\ pc = "Done" /\ attempts = <<1, 2>> /\ Len(logFile) >= 2
    /\ message.ToolCalls[1].Name = S("systemctl")
    /\ logFile[Len(logFile) - 1].v["status"] = JStr(S("error"))
    /\ logFile[Len(logFile) - 1].v["message"] = JStr(S("Unknown tool: systemctl"))

\* C6: each append of a turn belongs to one tool invocation attempt: a turn
\* with k structured tool calls makes k appends, one after each attempt; a
\* turn without tool calls makes one append when its recovered command is
\* executed and none when it ends with a suggestion or with text.
C6_OneEntryPerAttempt ==
    /\ Len(message.ToolCalls) > 0 =>
           appends = Len(attempts) - (IF pc \in {"Running", "Rate", "Log"} THEN 1 ELSE 0)
    /\ (pc = "Done" /\ Len(message.ToolCalls) > 0) => appends = Len(message.ToolCalls)
    /\ (pc = "Done" /\ Len(message.ToolCalls) = 0) =>
           appends = (IF parsed.shouldExecute /\ parsed.command # <<>> THEN 1 ELSE 0)
    /\ outcome \in {"suggested", "displayed", "completed", "error"} => appends = 0
    /\ outcome = "executed" => appends = 1
    /\ Len(message.ToolCalls) = 0 => appends <= 1
    /\ (appends > 0 /\ pc \in {"Dispatch", "Done"}) =>
           /\ lastEntry.tool_name = call.Name /\ lastEntry.arguments = call.Arguments
           /\ Len(logFile) = Len(ReadLogs(prevLog)) + 1
           /\ logFile[Len(logFile)] = MarshalLog(lastEntry)

\* C6 witness: a turn with two structured tool calls ended with two appends
C6_Witness ==
    pc = "Done" /\ Len(message.ToolCalls) = 2 /\ appends = 2 /\ outcome = "tools"

\* C7: once the logger has appended, the log file holds at most 1000
\* entries, whatever the file held before and however many appends came.
C7_AtMostMaxEntries ==
    appends > 0 =>
        /\ Len(logFile) <= maxEntries
        /\ Len(logFile) >= 1
        /\ \A k \in 1..Len(logFile) : logFile[k].t = "obj"

\* C7 witness: an append to a file that was at the cap left it at the cap
C7_Witness ==
    appends >= 2 /\ Len(prevLog) = maxEntries /\ Len(logFile) = maxEntries

\* C8: after an append the file holds the most recent 1000 of the prior
\* entries that decode, in their order, followed by the new entry: the new
\* entry is last, the survivors keep their order, a file of 1000 entries
\* loses its first, and lines that are blank or do not decode are left out
\* without stopping the append.  Entries are taken as the logger's record
\* holds them.
C8_MostRecentInOrder ==
    appends > 0 =>
        LET holds(prior) ==
                /\ Len(logFile) = Min(maxEntries, Len(prior) + 1)
                /\ logFile[Len(logFile)] = MarshalLog(lastEntry)
                /\ \A k \in 1..(Len(logFile) - 1) :
                       logFile[k] = MarshalLog(prior[Len(prior) + 1 - Len(logFile) + k])
                /\ Len(prior) = maxEntries => logFile[1] = MarshalLog(prior[2])
                /\ Len(prior) <= Cardinality({k \in 1..Len(prevLog) :
                                                  prevLog[k].t \notin {"blank", "malformed"}})
        IN holds(ReadLogs(prevLog))

\* C8 witness: one append to a file of 1000 entries between a malformed and
\* a blank line: the second entry is now first and the new entry last, 1000
\* in all
C8_Witness ==
    /\ appends = 1
    /\ prevLog = <<MalformedLine>> \o FilledFile(maxEntries) \o <<BlankLine>>
    /\ Len(logFile) = maxEntries
    /\ logFile[1].v["timestamp"] = JStr(FormatTime(2))
    /\ logFile[maxEntries].v["timestamp"] = JStr(FormatTime(lastEntry.timestamp))

\* the documented fields of a log entry
DocumentedFields ==
    { "timestamp", "model", "user_query", "model_response", "tool_name", "arguments",
      "status", "message", "output", "error_details", "tools_enabled", "rating" }

\* C9: an append rewrites every surviving prior entry with the same value in
\* every documented field it had: no field is lost or altered.
C9_PriorEntriesKeepEveryField ==
    appends > 0 =>
        \A k \in 1..Len(prevLog) : \A j \in 1..(Len(logFile) - 1) :
            (/\ prevLog[k].t = "obj"
             /\ "timestamp" \in DOMAIN prevLog[k].v
             /\ logFile[j].v["timestamp"] = prevLog[k].v["timestamp"]) =>
                \A f \in DocumentedFields \cap DOMAIN prevLog[k].v :
                    f \in DOMAIN logFile[j].v /\ logFile[j].v[f] = prevLog[k].v[f]

\* C10: every entry the logger writes in a turn records the user's query and
\* the serialized model response.
C10_EntryRecordsQueryAndResponse ==
    appends > 0 =>
        /\ "user_query" \in DOMAIN logFile[Len(logFile)].v
        /\ "model_response" \in DOMAIN logFile[Len(logFile)].v
        /\ logFile[Len(logFile)].v["user_query"] = JStr(query)

\* C11: an edit_files call of a task turn returns status success only when
\* the target file was written: a success result comes after a write to the
\* path the call names.
C11_SuccessMeansWritten ==
    (/\ pc \in {"Rate", "Log"} /\ idx > 0
     /\ call.Name = S("edit_files")
     /\ toolResult.Status = S("success")) =>
        \E k \in 1..Len(fsOps) :
            /\ fsOps[k].op = "writeFile"
            /\ fsOps[k].path = DecodeEditParams(call.Arguments).Path

\* C12: edit_files with an empty path returns status error before any
\* filesystem call, and edit_files with a path but with content and diff
\* both empty returns status error with a message that says one of the two
\* is required.
C12_EditValidation ==
    /\ (feEdit # NoToolUse /\ editArgs.path = <<>>) =>
           (feEdit.status = S("error") /\ fsOps = <<>>)
    /\ (cliEdit # NoResult /\ editArgs.path = <<>>) =>
           (cliEdit.Status = S("error") /\ fsOps = <<>>)
    /\ (cliEdit # NoResult /\ editArgs.path # <<>> /\ editArgs.content = <<>>
          /\ editArgs.diff = <<>>) =>
           cliEdit.Status = S("error")
    /\ (feEdit # NoToolUse /\ editArgs.path # <<>> /\ editArgs.content = <<>>
          /\ editArgs.diff = <<>>) =>
           /\ feEdit.status = S("error")
           /\ feEdit.message = S("Either content or diff is required")

\* one step of the reference trace: the target lines and the cursor after
\* the diff line
RefStep(st, line) ==
    IF Len(line) = 0 THEN st
    ELSE IF line[1] = " " THEN [st EXCEPT !.cursor = st.cursor + 1]
    ELSE IF line[1] = "+"
    THEN [lines |-> [k \in 1..(Len(st.lines) + 1) |->
                        IF k <= Min(st.cursor, Len(st.lines)) THEN st.lines[k]
                        ELSE IF k = Min(st.cursor, Len(st.lines)) + 1
                        THEN [j \in 1..(Len(line) - 1) |-> line[j + 1]]
                        ELSE st.lines[k - 1]],
          cursor |-> st.cursor + 1]
    ELSE IF line[1] = "-" /\ st.cursor < Len(st.lines)
    THEN [st EXCEPT !.lines = [k \in 1..(Len(st.lines) - 1) |->
                                  IF k <= st.cursor THEN st.lines[k] ELSE st.lines[k + 1]]]
    ELSE st

\* the reference trace over the diff lines, in order
RECURSIVE RefTrace(_, _)
RefTrace(st, diffLines) ==
    IF diffLines = <<>> THEN st
    ELSE RefTrace(RefStep(st, Head(diffLines)), Tail(diffLines))

\* the content after n reference applications of the diff
RECURSIVE RefTimes(_, _, _)
RefTimes(content, d, n) ==
    IF n = 0 THEN content
    ELSE RefTimes(Join(RefTrace([lines |-> Split(content, "\n"), cursor |-> 0],
                                Split(d, "\n")).lines, S("\n")),
                  d, n - 1)

\* C13: the patch operator takes the diff lines in order against one cursor
\* that starts at 0: a context line advances the cursor, a + line inserts
\* its remainder at the cursor and advances it, a - line removes the line at
\* the cursor and leaves the cursor; the result equals the reference trace,
\* and " line1\n+line2\n-line1" on "line1" gives "line1\nline2".
C13_PatchEqualsReferenceTrace ==
    pc = "Patch" =>
        /\ patched = RefTimes(original, diff, applications)
        /\ (original = S("line1") /\ diff = S(" line1\n+line2\n-line1")
              /\ applications = 1) => patched = S("line1\nline2")

\* C13 witness: the diff of the example was applied once to line1
C13_Witness ==
    /\ pc = "Patch" /\ applications = 1
    /\ original = S("line1") /\ diff = S(" line1\n+line2\n-line1")
    /\ patched = S("line1\nline2")

\* a diff without + and - lines
ContextOnly(d) ==
    \A k \in 1..Len(Split(d, "\n")) :
        Len(Split(d, "\n")[k]) = 0 \/ Split(d, "\n")[k][1] \notin {"+", "-"}

\* C14: a diff that is empty or has context lines only, matching or not,
\* leaves every content as it was, however often it is applied.
C14_ContextOnlyDiffChangesNothing ==
    (pc = "Patch" /\ ContextOnly(diff)) => patched = original

\* C14 witness: a diff of two context lines that do not match the content
\* was applied twice and the content is as before
C14_Witness ==
    /\ pc = "Patch" /\ applications = 2
    /\ diff = S(" x\n line1") /\ original = S("a\nb") /\ patched = S("a\nb")

\* a run_commands invocation has returned
RunReturned == pc \in {"Rate", "Log"} /\ call.Name = S("run_commands")

\* the invocation under way got past the checks of its arguments and of the
\* safety gate
RunAdmitted(params) ==
    ~params.err /\ params.Command # <<>> /\ ~Denylisted(params.Command)

\* the checks of run_commands that C15 as stated and C15 amended share:
\* arguments that do not decode, or an empty command, give error and no
\* child, also when they hold a denylist substring; a denylisted command
\* gives denied and no child; a child that exited gives error with its
\* output on a non-zero code and success with its output on zero
RunChecks(params) ==
    /\ (RunReturned /\ (params.err \/ params.Command = <<>>)) =>
           (toolResult.Status = S("error") /\ proc = <<>>)
    /\ (RunReturned /\ ~params.err /\ Denylisted(params.Command)) =>
           (toolResult.Status = S("denied") /\ proc = <<>>)
    /\ (RunReturned /\ proc # <<>>) =>
           /\ RunAdmitted(params)
           /\ proc[1].command = params.Command
           /\ spawned[Len(spawned)] = params.Command
           /\ Len(spawned) <= Max(1, Len(attempts))
           /\ (proc[1].state = "exited" /\ proc[1].exitCode # 0) =>
                  (toolResult.Status = S("error") /\ toolResult.Output = proc[1].output)
           /\ (proc[1].state = "exited" /\ proc[1].exitCode = 0) =>
                  (toolResult.Status = S("success") /\ toolResult.Output = proc[1].output)

\* C15 as stated: run_commands gives error, without gate and child, for
\* arguments that do not decode or an empty command; denied without child
\* for a denylisted command; every other command is spawned once, and its
\* exit code decides between error and success, the output kept.
C15_EveryAdmittedCommandSpawned ==
    LET holds(params) ==
            /\ RunChecks(params)
            /\ (RunReturned /\ RunAdmitted(params)) => proc # <<>>
    IN holds(DecodeRunParams(call.Arguments))

\* C15 amended: as stated, but a command that passed the checks is spawned
\* only when its deadline is positive; with a timeout argument of 0 or less
\* run_commands returns error "Command timed out" and starts no child.
C15_AdmittedCommandSpawnedUnderPositiveDeadline ==
    LET holds(params) ==
            /\ RunChecks(params)
            /\ (RunReturned /\ RunAdmitted(params)) =>
                   IF params.hasTimeout /\ params.Timeout <= 0
                   THEN /\ proc = <<>>
                        /\ toolResult = TaskResponse(S("error"), S("Command timed out"), <<>>)
                   ELSE proc # <<>>
    IN holds(DecodeRunParams(call.Arguments))

\* C15 witness: a child exited with a non-zero code and run_commands
\* returned error with the child's output
C15_Witness ==
    /\ RunReturned /\ Len(proc) = 1
    /\ proc[1].state = "exited" /\ proc[1].exitCode = 1
    /\ toolResult.Status = S("error") /\ toolResult.Output = S("out\n")

\* the deadline of the child of the invocation under way is the timeout
\* argument, or 30 seconds without one; a child that was killed at its
\* deadline gives error "Command timed out" without output; no invocation
\* starts a second child
DeadlineHolds ==
    /\ (pc = "Running" /\ DecodeRunParams(call.Arguments).hasTimeout) =>
           proc[1].timeout = DecodeRunParams(call.Arguments).Timeout
    /\ (pc = "Running" /\ ~DecodeRunParams(call.Arguments).hasTimeout) =>
           proc[1].timeout = 30
    /\ (RunReturned /\ proc # <<>> /\ proc[1].state = "timedOut") =>
           toolResult = TaskResponse(S("error"), S("Command timed out"), <<>>)
    /\ Len(spawned) <= Max(1, Len(attempts))

\* C16: every child runs under the deadline of the timeout argument, 30
\* seconds without one; when the deadline passes the child is terminated and
\* run_commands returns error "Command timed out" without output and without
\* a retry, so that every run_commands call returns in the end.
C16_DeadlineEndsEveryCall ==
    /\ []DeadlineHolds
    /\ (pc = "Running") ~> (pc # "Running")

\* the errors a failed inference request can end a turn with
InferenceErrors ==
    { S("failed to get response from model: failed to execute request: connection refused"),
      S("failed to get response from model: API error (status 500): model not loaded"),
      S("failed to get response from model: API error (status 404): "),
      S("failed to get response from model: failed to decode response: unexpected end of JSON input"),
      S("no response from model") }

\* a turn that failed at the inference request has run no tool, asked for no
\* rating and written no log line
AbortedClean ==
    pc = "Failed" =>
        /\ taskErr \in InferenceErrors
        /\ outcome = "error"
        /\ message = NoMessage
        /\ toolResult = NoResult
        /\ spawned = <<>> /\ attempts = <<>> /\ proc = <<>>
        /\ rating = 0
        /\ appends = 0

\* C17: when the inference request fails (endpoint unreachable, a non-200
\* status whose raw body becomes the error text, an undecodable body, or a
\* response without choices) the turn ends with that error: no tool runs, no
\* rating is asked, no log line is written, and nothing follows, in
\* particular no second request.
C17_FailedRequestAbortsTurn ==
    /\ [](AbortedClean /\ (taskErr # <<>> => pc = "Failed"))
    /\ [][pc = "Failed" => UNCHANGED vars]_vars
    /\ [][pc' = "Failed" => (pc = "AwaitingModelResponse" /\ logFile' = logFile)]_vars

\* a turn that failed on status 500 carries the body of the response
C17_Witness ==
    /\ pc = "Failed"
    /\ taskErr = S("failed to get response from model: API error (status 500): model not loaded")
    /\ appends = 0 /\ spawned = <<>>

\* the entry the converter decodes from the line it scans in this step
ScannedEntry == UnmarshalEntry(logFile[lineNum + 1]).entry

\* the converter writes an example in this step
WritesExample == pc = "Convert" /\ Len(examples') = Len(examples) + 1

\* C18: the converter writes an example only for an entry rated at least the
\* minimum rating N; an entry without a rating is written under the default
\* N = 3 only, so --min-rating 1 keeps every unrated entry out.
C18_OnlyEntriesRatedAtLeastMin ==
    [][WritesExample =>
          \/ ScannedEntry["rating"] >= minRating
          \/ (ScannedEntry["rating"] = 0 /\ minRating = 3)]_vars

\* the line scanned in this step decodes to an entry without user_query or
\* without model_response that passes the rating filter
ScansOldFormat ==
    /\ pc = "Convert" /\ lineNum' = lineNum + 1
    /\ logFile[lineNum + 1].t # "blank"
    /\ UnmarshalEntry(logFile[lineNum + 1]).ok
    /\ ScannedEntry["user_query"] = <<>> \/ ScannedEntry["model_response"] = <<>>
    /\ ~(ScannedEntry["rating"] > 0 /\ ScannedEntry["rating"] < minRating)

\* C19: the converter turns every decodable entry without user_query or
\* model_response that passes the rating filter into a reconstructed
\* example, whose user query is inferred from the tool call, and does not
\* skip it.
C19_OldFormatReconstructed ==
    [][ScansOldFormat =>
          /\ Len(examples') = Len(examples) + 1
          /\ skipped' = skipped
          /\ ScannedEntry["user_query"] = <<>> =>
                 examples'[Len(examples')].Messages[1].Content
                     = reconstructUserQuery(ScannedEntry)]_vars

\* a message without tool calls whose content is a json-fenced block holding
\* {"command": "rm -rf /"}
FencedRemoveAll == Fence \o S("json\n{\"command\": \"rm -rf /\"}\n") \o Fence

\* C20: a turn without tool calls whose content is a json-fenced block
\* holding {"command": "rm -rf /"} ends with the command "rm -rf /"
\* extracted from the block and with the dispatcher's result of status
\* denied.
C20_FencedDangerousCommandDenied ==
    (pc = "Done" /\ message.ToolCalls = <<>> /\ message.Content = FencedRemoveAll) =>
        /\ parsed.command = S("rm -rf /")
        /\ toolResult.Status = S("denied")

\* the string a decoded object holds under a key; empty when the key is
\* absent or its value is no string
StringAt(obj, key) ==
    IF MapGet(obj, key).t = "str" THEN MapGet(obj, key).v ELSE <<>>

\* the three shapes of a decoded content, in the order of the claim: the
\* top-level command, the command of an arguments object, the command of
\* the JSON object an arguments string holds
Shapes(m) ==
    << StringAt(m, S("command")),
       IF MapGet(m, S("arguments")).t = "obj"
       THEN StringAt(MapGet(m, S("arguments")), S("command")) ELSE <<>>,
       IF MapGet(m, S("arguments")).t = "str"
          /\ ~UnmarshalMap(MapGet(m, S("arguments")).v).err
       THEN StringAt(UnmarshalMap(MapGet(m, S("arguments")).v).m, S("command"))
       ELSE <<>> >>

\* the first non-empty string of a sequence; empty when there is none
FirstNonEmpty(q) ==
    IF \A k \in 1..Len(q) : q[k] = <<>> THEN <<>>
    ELSE q[CHOOSE k \in 1..Len(q) : q[k] # <<>> /\ \A j \in 1..(k - 1) : q[j] = <<>>]

\* the decoded content of the message under interpretation
ParsedContent == ParseContent(StripFence(TrimSpace(message.Content)))

\* C21: when the content parses as a JSON object the command is that of the
\* first shape giving a non-empty string, in the order top-level command,
\* command of an arguments object, command inside an arguments string of
\* JSON; a non-empty top-level command wins over the arguments, and a shape
\* whose value is empty or no string is passed over.
C21_FirstNonEmptyShapeWins ==
    LET holds(p) ==
            /\ (~p.err /\ FirstNonEmpty(Shapes(p.m)) # <<>>) =>
                   /\ parsed.via = "json"
                   /\ parsed.command = FirstNonEmpty(Shapes(p.m))
            /\ (~p.err /\ Shapes(p.m)[1] # <<>>) => parsed.command = Shapes(p.m)[1]
            /\ parsed.via = "json" => (~p.err /\ parsed.command \in
                                         {Shapes(p.m)[k] : k \in 1..3} \ {<<>>})
    IN (Interpreted /\ message.Content # <<>>) =>
           /\ holds(ParsedContent)
           /\ message.Content = S("{\"command\": \"who\", \"arguments\": {\"command\": \"reboot\"}}")
                  => parsed.command = S("who")
           /\ message.Content = S("{\"command\": \"\", \"arguments\": {\"command\": \"ps aux\"}}")
                  => parsed.command = S("ps aux")
           /\ message.Content = S("{\"command\": 5, \"arguments\": \"{\\\"command\\\": \\\"id\\\"}\"}")
                  => parsed.command = S("id")

\* C21 witness: the content held a top-level command and a command in its
\* arguments, and the top-level one was taken
C21_Witness ==
    /\ Interpreted
    /\ Shapes(ParsedContent.m)[1] = S("who")
    /\ Shapes(ParsedContent.m)[2] = S("reboot")
    /\ parsed.command = S("who") /\ parsed.via = "json"

\* C22: the line scan runs only when the content did not parse as JSON, the
\* retry on the text from the first { to the last } included; content that
\* parses as a JSON object without a command in any shape gives no command.
C22_ScanOnlyAfterFailedParse ==
    LET holds(p) ==
            /\ parsed.via = "scan" => p.err
            /\ (~p.err /\ FirstNonEmpty(Shapes(p.m)) = <<>>) =>
                   parsed = [command |-> <<>>, shouldExecute |-> FALSE, via |-> "none"]
    IN (Interpreted /\ message.Content # <<>>) => holds(ParsedContent)

\* a diff line that is header material of a unified diff: a hunk header or
\* a file header
IsHeaderLine(line) ==
    HasPrefix(line, S("@@")) \/ HasPrefix(line, S("--- ")) \/ HasPrefix(line, S("+++ "))

IsBodyLine(line) == ~IsHeaderLine(line)

\* a diff without its header lines
BodyOf(d) == Join(SelectSeq(Split(d, "\n"), IsBodyLine), S("\n"))

\* C23: the patch operator passes over the header material of a unified
\* diff: a hunk header (@@ ... @@) or a file header (--- name, +++ name)
\* changes neither the lines nor the cursor, so the result is that of the
\* body lines alone; the README's example diff turns old-hostname into
\* new-hostname.
C23_HeadersIgnored ==
    pc = "Patch" =>
        /\ patched = RefTimes(original, BodyOf(diff), applications)
        /\ (original = S("old-hostname") /\ applications = 1
              /\ diff = S("--- original\n+++ new\n@@ -1 +1 @@\n-old-hostname\n+new-hostname"))
               => patched = S("new-hostname")

\* a turn without tool calls that ended has one of the three outcomes, each
\* with its effects: executed and logged once for a recovered command that
\* is auto-executable, suggested without execution or log entry for one
\* that is not, displayed without execution or log entry when no command
\* was recovered
OneTerminalOutcome ==
    (pc = "Done" /\ Len(message.ToolCalls) = 0) =>
        /\ outcome \in {"executed", "suggested", "displayed", "completed"}
        /\ outcome = "executed" <=> (parsed.command # <<>> /\ parsed.shouldExecute)
        /\ outcome = "suggested" <=> (parsed.command # <<>> /\ ~parsed.shouldExecute)
        /\ outcome \in {"displayed", "completed"} <=> parsed.command = <<>>
        /\ outcome = "completed" <=> message.Content = <<>>
        /\ outcome = "executed" =>
               (appends = 1 /\ call = ToolCall(S("run_commands"), MarshalCommand(parsed.command)))
        /\ outcome # "executed" =>
               (appends = 0 /\ spawned = <<>> /\ toolResult = NoResult)

\* C24: every task turn that gets a model message without structured tool
\* calls ends, in exactly one of the outcomes executed-and-logged (command
\* recovered and auto-executable), suggested-not-executed (command
\* recovered, not auto-executable) and plain-text-displayed (no command
\* recovered, empty content included: nothing executed, nothing logged).
C24_NoToolCallTurnEnds ==
    /\ []OneTerminalOutcome
    /\ (pc = "Interpret") ~> (pc = "Done")

\* the rating a log line holds; 0 when it holds none
LineRating(line) ==
    IF "rating" \in DOMAIN line.v THEN line.v["rating"].v ELSE 0

\* the order of the events of one step: a tool returns its result before
\* the rating prompt is read, the prompt is read before the entry is
\* appended, the file changes by an append only, the entry appended holds
\* the result and the rating of the invocation, an invocation starts only
\* when the entries of all earlier ones are in the file, and an append
\* leaves the entries earlier appends of the turn wrote as they are
EventOrder ==
    /\ pc' = "Rate" =>
           /\ pc \in {"Dispatch", "Interpret", "Running"}
           /\ toolResult' # NoResult
           /\ rating' = rating /\ logFile' = logFile
    /\ pc' = "Log" =>
           /\ pc = "Rate"
           /\ toolResult' = toolResult /\ logFile' = logFile
    /\ rating' # rating => (pc = "Rate" /\ pc' = "Log")
    /\ logFile' # logFile =>
           /\ pc = "Log" /\ appends' = appends + 1
           /\ Len(logFile') >= 1
           /\ logFile'[Len(logFile')].v["tool_name"] = JStr(call.Name)
           /\ logFile'[Len(logFile')].v["status"] = JStr(toolResult.Status)
           /\ logFile'[Len(logFile')].v["message"] = JStr(toolResult.Message)
           /\ LineRating(logFile'[Len(logFile')]) = rating
    /\ attempts' # attempts => appends = Len(attempts)
    /\ spawned' # spawned => appends = Len(attempts)
    /\ (pc = "Log" /\ appends > 0) =>
           SubSeq(logFile', Len(logFile') - appends, Len(logFile') - 1)
               = SubSeq(logFile, Len(logFile) - appends + 1, Len(logFile))

\* C25: for every tool invocation of a turn the tool returns its result,
\* then the rating prompt is read, then the log entry is appended; the
\* entry of call i is appended before call i+1 starts, and an entry changes
\* afterwards only when a later append rewrites the file, which leaves the
\* entries of the turn as they were written.
C25_ResultThenRatingThenLog == [][EventOrder]_vars

\* C25 witness: the second call of a turn is about to start, the entry of
\* the first is in the file and holds the rating read for it
C25_Witness ==
    /\ pc = "Dispatch" /\ idx = 2 /\ appends = 1 /\ Len(attempts) = 1
    /\ rating > 0
    /\ LineRating(logFile[Len(logFile)]) = rating

\* the integers among TypedLines, white space around them aside, as pairs of
\* line and value
TypedIntegers ==
    { <<S("0\n"), 0>>, <<S("1\n"), 1>>, <<S("2\n"), 2>>, <<S("3\n"), 3>>,
      <<S("4\n"), 4>>, <<S("5\n"), 5>>, <<S(" 5 \n"), 5>>, <<S("+4\n"), 4>>,
      <<S("05\n"), 5>>, <<S("3"), 3>>, <<S("6\n"), 6>>, <<S("-1\n"), -1>>,
      <<S("10\n"), 10>> }

\* the rating the prompt is to return for a line
ExpectedRating(line) ==
    IF \E p \in TypedIntegers : p[1] = line /\ p[2] \in 0..5
    THEN (CHOOSE p \in TypedIntegers : p[1] = line)[2]
    ELSE 0

\* C26: every rating stored in a log entry is an integer from 0 to 5: the
\* rating prompt returns the typed value when the line is an integer in
\* 0..5, and 0 for a line that is no integer, for a value below 0 or above
\* 5 and for end of input; the entry appended carries that rating
C26_RatingsZeroToFive ==
    /\ rating \in 0..5
    /\ pc \in {"Log", "Done"} => rating = ExpectedRating(typed)
    /\ appends > 0 =>
           /\ lastEntry.rating = ExpectedRating(typed)
           /\ LineRating(logFile[Len(logFile)]) = ExpectedRating(typed)
           /\ LineRating(logFile[Len(logFile)]) \in 0..5

\* a typed 3 without its newline has been stored as 3, and elsewhere a typed
\* 6 is stored as unrated
C26_Witness ==
    /\ pc = "Done" /\ appends = 1
    /\ typed \in {S("3"), S("6\n")}
    /\ LineRating(logFile[Len(logFile)]) = IF typed = S("3") THEN 3 ELSE 0

\* the example written in this step
WrittenExample == examples'[Len(examples')]

\* the tool calls the model response of the scanned entry holds
OwnToolCalls == UnmarshalModelResponse(ScannedEntry["model_response"]).x.ToolCalls

\* C27: every example the converter emits has the messages user, assistant
\* and then at most one tool message; the assistant message carries at least
\* one tool call, the model response's own or else one rebuilt from the
\* entry's tool_name and arguments; the tool message is there exactly when
\* the entry's status is success and its output is not empty
C27_ExampleMessageOrder ==
    [][WritesExample =>
          LET m == WrittenExample.Messages IN
            /\ examples' = Append(examples, WrittenExample)
            /\ Len(m) \in {2, 3}
            /\ m[1].Role = S("user") /\ m[2].Role = S("assistant")
            /\ Len(m[2].ToolCalls) >= 1
            /\ m[2].ToolCalls =
                   IF Len(OwnToolCalls) > 0 THEN OwnToolCalls
                   ELSE << FunctionCall(S("call_1"), S("function"),
                                        ScannedEntry["tool_name"],
                                        ScannedEntry["arguments"]) >>
            /\ Len(m) = 3 => m[3].Role = S("tool")
            /\ Len(m) = 3 <=> (/\ ScannedEntry["status"] = S("success")
                               /\ ScannedEntry["output"] # <<>>)]_vars

\* two examples are written: one with the response's own tool call and no
\* tool message, one with a rebuilt tool call and a tool message
C27_Witness ==
    /\ Len(examples) = 2
    /\ \E i, j \in 1..2 :
         /\ Len(examples[i].Messages) = 2
         /\ examples[i].Messages[2].ToolCalls[1].ID = S("c9")
         /\ Len(examples[j].Messages) = 3
         /\ examples[j].Messages[2].ToolCalls[1].ID = S("call_1")
         /\ examples[j].Messages[3].Role = S("tool")

\* the tool definitions of the chat request (task.go 261-312), by name
tools(toolsEnabled) ==
    IF toolsEnabled THEN <<S("edit_files"), S("run_commands")>> ELSE <<>>

\* C28: with tool calling disabled the request carries no tool definitions
\* and the turn executes no tool: no tool call of the message is dispatched,
\* no command recovered from the content is run, and no log entry is
\* appended
C28_DisabledToolsNeverRun ==
    ~tm.toolsEnabled =>
        /\ tools(tm.toolsEnabled) = <<>>
        /\ attempts = <<>> /\ spawned = <<>> /\ proc = <<>>
        /\ outcome \notin {"tools", "executed"}
        /\ appends = 0 /\ logFile \in TurnLogFiles

\* both processes have returned from logToolCall
BothReturned == pc = "Race" /\ \A p \in Writers : writers[p].at = "returned"

\* C29: when two processes append to the same log file with their
\* read-append-rewrite steps interleaved, no update is lost: after both
\* returned the file holds both new entries, and it is the file that one
\* append after the other leaves, so every earlier entry the cap allows is
\* still there
C29_NoLostUpdate ==
    BothReturned =>
        /\ \A p \in Writers :
             \E k \in 1..Len(logFile) : logFile[k] = MarshalLog(writers[p].logEntry)
        /\ \E p, q \in Writers :
             /\ p # q
             /\ logFile = logToolCall(writers[p].logLines, writers[q].logEntry)

\* edit_files was called with a path and with neither content nor diff
NeitherSupplied ==
    /\ pc = "Edit" /\ editArgs.path # <<>>
    /\ editArgs.content = <<>> /\ editArgs.diff = <<>>

\* no file was written and no directory was created
FilesystemUnchanged ==
    \A k \in 1..Len(fsOps) : fsOps[k].op \notin {"writeFile", "mkdirSync"}

====
